---- MODULE Spec2Model ----
(***************************************************************************)
(* A model of Enzyme's DiffeGradientUtils (DiffeGradientUtils.cpp): the    *)
(* differential store, the reverse-block bookkeeping, the accumulation     *)
(* protocol (diffe / addToDiffe / setDiffe), shadow-pointer accumulation   *)
(* (addToInvertedPtrDiffe) and the cache release scheduler (freeCache).    *)
(*                                                                         *)
(* The engine is a code generator: its operations emit instructions into   *)
(* basic blocks.  The model keeps the emitted instructions per block and   *)
(* gives them their run-time meaning with an interpreter (Exec, RunPath),  *)
(* so that statements about the values the generated code computes are     *)
(* decided by the instructions the engine emitted.                         *)
(*                                                                         *)
(* Assertions are modelled as in a build with assertions enabled: a failed *)
(* assert or llvm_unreachable aborts the process (failed = TRUE) and the   *)
(* state keeps whatever had been emitted before the abort.  The batching   *)
(* width is 1 throughout (getShadowType is the identity on types).         *)
(***************************************************************************)
EXTENDS Integers, Sequences, FiniteSets, TLC

\* ------------------------------------------------------------------ bounds
\* Engine calls made after construction.
MaxOps == 2
\* Forward blocks of the function being differentiated.
MaxBlocks == 2
\* Blocks executed after the entry allocation block on a run-time path.
MaxPath == 2
\* Protocol calls on a scalar active Value (the accumulation specification).
MaxAccOps == 3
\* Protocol calls on aggregate Values (the aggregate specification).
MaxAggOps == 2
\* Shadow-pointer accumulations (the shadow-pointer specification).
MaxPtrOps == 1
\* Trip counts of the loop of compute_loops tried besides the test's own.
MaxTrip == 3
\* Engine calls of the contract-violation specification.
MaxErrOps == 1
\* Protocol calls of the slot-replacement specification.
MaxSetOps == 3
\* Engine calls of the forward-mode specification.
MaxFwdOps == 3
\* Calls and block splits of the cache-release specification.
MaxFreeOps == 3
\* Protocol calls of the select-fusion specification.
MaxSelOps == 2
\* Protocol calls of the numeric-reinterpretation specification.
MaxNumOps == 2
\* Calls of the parallel-accumulation specification, and the logical threads
\* that run what they emitted.
MaxParOps == 1
MaxThreads == 2

\* ------------------------------------------------------------- LLVM types
FloatTy == [k |-> "float"]
DoubleTy == [k |-> "double"]
PtrTy == [k |-> "ptr"]
VoidTy == [k |-> "void"]
IntTy(b) == [k |-> "int", bits |-> b]
StructTy(elts) == [k |-> "struct", elts |-> elts]
ArrayTy(n, elt) == [k |-> "array", n |-> n, elt |-> elt]
VectorTy(n, elt) == [k |-> "vector", n |-> n, elt |-> elt]

isPointerTy(ty) == ty.k = "ptr"
isVoidTy(ty) == ty.k = "void"
isIntOrIntVectorTy(ty) == ty.k = "int" \/ (ty.k = "vector" /\ ty.elt.k = "int")
isFPOrFPVectorTy(ty) ==
  ty.k \in {"float", "double"} \/ (ty.k = "vector" /\ ty.elt.k \in {"float", "double"})

\* DataLayout::getTypeSizeInBits for the scalar and vector types used here.
RECURSIVE getTypeSizeInBits(_)
getTypeSizeInBits(ty) ==
  CASE ty.k = "float" -> 32
    [] ty.k = "double" -> 64
    [] ty.k = "int" -> ty.bits
    [] ty.k = "ptr" -> 64
    [] ty.k = "vector" -> ty.n * getTypeSizeInBits(ty.elt)
    [] ty.k = "array" -> ty.n * getTypeSizeInBits(ty.elt)
    [] OTHER -> 0

\* ------------------------------------------------- the differentiated code
\* Values of the function being differentiated (oldFunc) that the adjoint
\* generator may ask about.
Values ==
  {"x", "s", "arr", "parr", "nest", "p", "pa", "pb", "c"}
    \cup {"a", "b", "ret", "la", "lb", "add", "ext", "sum", "sumnext", "tr"}
    \cup {"vd", "k", "vec", "av", "si", "sv"}
    \cup {"k32", "k96"}

TypeOfValue(v) ==
  CASE v = "x" -> FloatTy
    [] v = "s" -> StructTy(<<FloatTy, PtrTy, FloatTy>>)
    [] v = "arr" -> ArrayTy(2, FloatTy)
    [] v = "parr" -> ArrayTy(2, PtrTy)
    [] v = "nest" -> StructTy(<<ArrayTy(2, FloatTy), ArrayTy(2, PtrTy)>>)
    [] v \in {"p", "pa", "pb"} -> PtrTy
    \* compute_loops: float *a, *b, *ret; la = *a; lb = *b; add = la + lb;
    \* ext = (double)add; sum = phi(0.0, sumnext); sumnext = sum + ext;
    \* tr = (float)sum; *ret = tr.
    [] v \in {"a", "b", "ret"} -> PtrTy
    [] v \in {"la", "lb", "add", "tr"} -> FloatTy
    [] v \in {"ext", "sum", "sumnext"} -> DoubleTy
    [] v = "c" -> FloatTy
    \* A call that returns nothing, an integer holding the bits of a double, a
    \* vector of four floats, an array of two such vectors, and a struct of a
    \* float and such an integer.
    [] v = "vd" -> VoidTy
    [] v = "k" -> IntTy(64)
    [] v = "vec" -> VectorTy(4, FloatTy)
    [] v = "av" -> ArrayTy(2, VectorTy(4, FloatTy))
    [] v = "si" -> StructTy(<<FloatTy, IntTy(64)>>)
    [] v = "sv" -> StructTy(<<VectorTy(4, FloatTy), PtrTy>>)
    \* Integers of 32 and of 96 bits.
    [] v = "k32" -> IntTy(32)
    [] v = "k96" -> IntTy(96)

\* getUnderlyingObject: p is a pointer argument, pa points into the alloca
\* "al" of the function, pb into the allocation "mb".
getUnderlyingObject(v) ==
  CASE v = "pa" -> "al"
    [] v = "pb" -> "mb"
    [] OTHER -> v

isAllocaInst(obj) == obj = "al"

\* The activity oracle: "c" is a constant (non-differentiable) value.
isConstantValue(v) == v = "c"

\* Batching width 1: the shadow type mirrors the value's type.
getShadowType(ty) == ty

\* The entry block that holds the allocations of the reverse pass.
inversionAllocs == 0

ForwardModes == {"ForwardMode", "ForwardModeSplit"}
ReverseModes == {"ReverseModeGradient", "ReverseModeCombined"}
Modes == ForwardModes \cup ReverseModes

\* --------------------------------------------------------- run-time values
\* A leaf is a tagged number: a float ("f"), a pointer ("p", 0 is null), the
\* bits of an integer ("i"), a boolean ("b") or uninitialised memory ("u").
\* An aggregate is the sequence of its elements.  (A leaf has five fields,
\* a number of elements no aggregate of the model has, which is what tells a
\* leaf from an aggregate.)
Leaf(t, n) == [t |-> t, n |-> n, leaf |-> TRUE, pad1 |-> 0, pad2 |-> 0]
F(n) == Leaf("f", n)
P(n) == Leaf("p", n)
I(n) == Leaf("i", n)
Bool(b) == Leaf("b", IF b THEN 1 ELSE 0)
UndefLeaf == Leaf("u", 0)
isLeaf(v) == DOMAIN v = DOMAIN UndefLeaf

isAggregateTy(ty) == ty.k \in {"struct", "array", "vector"}
NumElements(ty) == IF ty.k = "struct" THEN Len(ty.elts) ELSE ty.n
ElementType(ty, i) == IF ty.k = "struct" THEN ty.elts[i] ELSE ty.elt

\* Constant::getNullValue / the bytes a memset to zero leaves.
RECURSIVE ZeroOf(_)
ZeroOf(ty) ==
  IF isAggregateTy(ty)
  THEN [i \in 1..NumElements(ty) |-> ZeroOf(ElementType(ty, i))]
  ELSE CASE ty.k = "ptr" -> P(0)
         [] ty.k = "int" -> I(0)
         [] OTHER -> F(0)

\* What a fresh alloca holds before anything is stored to it.
RECURSIVE UndefOf(_)
UndefOf(ty) ==
  IF isAggregateTy(ty)
  THEN [i \in 1..NumElements(ty) |-> UndefOf(ElementType(ty, i))]
  ELSE UndefLeaf

\* ------------------------------------------------------------------ state
VARIABLES
  phase,                \* "new" before the constructor ran, then "ready",
                        \* "run" once the transformed program runs
  failed,               \* an assertion aborted the process
  mode,                 \* DerivativeMode
  originalBlocks,       \* the blocks of the cloned function, in order
  reverseBlocks,        \* forward block -> list of reverse blocks
  reverseBlockToPrimal, \* reverse block -> forward block
  differentials,        \* Value -> its alloca (the differential slot)
  invertedPointers,     \* Value -> shadow value (forward modes)
  code,                 \* block -> the instructions emitted into it
  scopeFrees,           \* cached allocation -> the deallocations emitted for it
  FreeMemory,           \* the global toggle: emit frees of cached memory
  looseTypeAnalysis,    \* the global toggle: guess a float type for integers
  AtomicAdd,            \* the global toggle: accumulate through pointers atomically
  Arch,                 \* the architecture of the module's target triple
  LLVM_VERSION_MAJOR,   \* the LLVM release the engine is built against
  backwardsOnlyShadows, \* the allocations only the reverse pass touches
  nextId,               \* the next fresh instruction / block id
  budget,               \* protocol calls left
  last,                 \* the call just made, and what it returned
  accessed,             \* Values a diffe/addToDiffe/setDiffe call returned for
  requested,            \* Values getDifferential was called on directly
  sums,                 \* per scalar Value, the sum of the increments added
  overwritten,          \* Values a setDiffe call stored to
  loop,                 \* the gradient of compute_loops: generation and run
  threads               \* logical threads of the transformed program, running

vars == <<phase, failed, mode, originalBlocks, reverseBlocks,
          reverseBlockToPrimal, differentials, invertedPointers, code,
          scopeFrees, FreeMemory, looseTypeAnalysis, AtomicAdd, Arch,
          LLVM_VERSION_MAJOR, backwardsOnlyShadows, nextId, budget,
          last, accessed, requested, sums, overwritten, loop, threads>>

\* The engine's fields as one record, so that operations compose.
Eng ==
  [failed |-> failed, mode |-> mode, reverseBlocks |-> reverseBlocks,
   reverseBlockToPrimal |-> reverseBlockToPrimal,
   differentials |-> differentials, invertedPointers |-> invertedPointers,
   code |-> code, scopeFrees |-> scopeFrees, nextId |-> nextId, ret |-> 0]

Empty == [z \in {} |-> 0]

\* A failed assertion: the process aborts, what was emitted stays emitted.
Fail(E) == [E EXCEPT !.failed = TRUE]

\* IRBuilder: append an instruction at the end of block B.
Emit(E, B, ins) == [E EXCEPT !.code[B] = Append(@, ins)]

\* ------------------------------------------------------------ instructions
Alloca(id, ty) == [op |-> "alloca", id |-> id, ty |-> ty]
ZeroMemory(id, ty) == [op |-> "memset0", id |-> id, ty |-> ty]

Load(id, ty, ptr) == [op |-> "load", id |-> id, ty |-> ty, ptr |-> ptr]
Store(val, ptr) == [op |-> "store", val |-> val, ptr |-> ptr]
MaskedStore(val, ptr, mask) ==
  [op |-> "masked_store", val |-> val, ptr |-> ptr, mask |-> mask]
PhiNode(id, ty) == [op |-> "phi", id |-> id, ty |-> ty]
\* atomicrmw fadd, monotonic.
AtomicRMW(ptr, val, align) ==
  [op |-> "atomicrmw", ptr |-> ptr, val |-> val, align |-> align]
MaskedLoad(id, ty, ptr, align, mask, passthru) ==
  [op |-> "masked_load", id |-> id, ty |-> ty, ptr |-> ptr, align |-> align,
   mask |-> mask, passthru |-> passthru]

\* An address inside an alloca: the alloca and the GEP indices (0-based).
Addr(slot, path) == [slot |-> slot, path |-> path]

\* ------------------------------------------------------- IR values (operands)
\* A Constant, a non-constant Value whose run-time value is v, the result of
\* a load, and the pure instructions the protocol builds from them.
Const(ty, v) == [e |-> "const", ty |-> ty, v |-> v]
Inst(ty, v) == [e |-> "inst", ty |-> ty, v |-> v]
Ld(ty, id) == [e |-> "ld", ty |-> ty, id |-> id]
FAddE(l, r) == [e |-> "fadd", ty |-> l.ty, l |-> l, r |-> r]
FSubE(l, r) == [e |-> "fsub", ty |-> l.ty, l |-> l, r |-> r]
SelectE(c, t, f) == [e |-> "select", ty |-> t.ty, c |-> c, t |-> t, f |-> f]
BitCastE(x, ty) == [e |-> "bitcast", ty |-> ty, x |-> x]
\* fpext / fptrunc.
FPCastE(x, ty) == [e |-> "fpcast", ty |-> ty, x |-> x]
ExtractElementE(x, i) == [e |-> "extractelement", ty |-> x.ty.elt, x |-> x, i |-> i]
ExtractE(x, i) == [e |-> "extractvalue", ty |-> ElementType(x.ty, i + 1), x |-> x, i |-> i]
Phi(ty, id) == [e |-> "phi", ty |-> ty, id |-> id]

NoMask == <<>>
NoType == [k |-> "none"]

\* ------------------------------------------------ run-time meaning of the IR
\* fadd / fsub on run-time values, element by element on vectors.  Anything
\* computed from uninitialised memory is uninitialised.
RECURSIVE AddVal(_, _)
AddVal(a, b) ==
  IF isLeaf(a)
  THEN IF a.t = "f" /\ b.t = "f" THEN F(a.n + b.n) ELSE UndefLeaf
  ELSE [i \in DOMAIN a |-> AddVal(a[i], b[i])]

RECURSIVE NegVal(_)
NegVal(a) ==
  IF isLeaf(a)
  THEN IF a.t = "f" THEN F(0 - a.n) ELSE UndefLeaf
  ELSE [i \in DOMAIN a |-> NegVal(a[i])]

\* The bit pattern of a float and back.  Zero has the all-zero pattern; the
\* encoding is not additive, so that integer addition of patterns is not
\* float addition.
BitsOfFloat(n) == n * n * n
FloatOfBits(b) ==
  IF \E n \in -8..8 : n * n * n = b
  THEN F(CHOOSE n \in -8..8 : n * n * n = b)
  ELSE UndefLeaf

\* The bit pattern of a vector of two floats: the pattern of the first in the
\* low half, that of the second in the high half.  (Patterns of more lanes
\* are not represented: such a value is unknown.)
LaneRadix == 1025
BitsOfLanes(v) ==
  IF Len(v) = 2 /\ v[1].t = "f" /\ v[2].t = "f"
  THEN I(BitsOfFloat(v[1].n) + LaneRadix * BitsOfFloat(v[2].n))
  ELSE UndefLeaf
LanesOfBits(b, n) ==
  LET lo == ((b + 512) % LaneRadix) - 512 IN
  IF n = 2 THEN <<FloatOfBits(lo), FloatOfBits((b - lo) \div LaneRadix)>>
  ELSE [i \in 1..n |-> UndefLeaf]

\* A bitcast between an integer and a float, or a vector of floats, of the
\* same width.
BitCastVal(v, ty) ==
  IF ~isLeaf(v)
  THEN IF ty.k = "int" THEN BitsOfLanes(v) ELSE v
  ELSE IF v.t = "i" /\ ty.k = "vector" /\ isFPOrFPVectorTy(ty)
  THEN LanesOfBits(v.n, ty.n)
  ELSE IF v.t = "i" /\ isFPOrFPVectorTy(ty) THEN FloatOfBits(v.n)
  ELSE IF v.t = "f" /\ isIntOrIntVectorTy(ty) THEN I(BitsOfFloat(v.n))
  ELSE v

RECURSIVE Eval(_, _)
Eval(x, regs) ==
  CASE x.e \in {"const", "inst"} -> x.v
    [] x.e = "ld" -> regs[x.id]
    [] x.e = "fadd" -> AddVal(Eval(x.l, regs), Eval(x.r, regs))
    [] x.e = "fsub" -> AddVal(Eval(x.l, regs), NegVal(Eval(x.r, regs)))
    [] x.e = "select" ->
         IF Eval(x.c, regs).n = 1 THEN Eval(x.t, regs) ELSE Eval(x.f, regs)
    [] x.e = "bitcast" -> BitCastVal(Eval(x.x, regs), x.ty)
    [] x.e = "fpcast" -> Eval(x.x, regs)
    [] x.e \in {"extractvalue", "extractelement"} -> Eval(x.x, regs)[x.i + 1]
    [] x.e = "phi" -> IF x.id \in DOMAIN regs THEN regs[x.id] ELSE UndefLeaf
    [] OTHER -> UndefLeaf

RECURSIVE ReadAt(_, _)
ReadAt(tree, path) ==
  IF path = <<>> THEN tree ELSE ReadAt(tree[Head(path) + 1], Tail(path))

RECURSIVE WriteAt(_, _, _)
WriteAt(tree, path, v) ==
  IF path = <<>> THEN v
  ELSE [tree EXCEPT ![Head(path) + 1] = WriteAt(@, Tail(path), v)]

\* llvm.masked.store: only the lanes whose mask bit is set are written.
MaskedWrite(old, v, mask) ==
  [i \in DOMAIN old |-> IF i \in DOMAIN mask /\ mask[i] THEN v[i] ELSE old[i]]

\* llvm.masked.load: the lanes whose mask bit is clear come from passthru.
MaskedRead(old, passthru, mask) ==
  [i \in DOMAIN old |-> IF i \in DOMAIN mask /\ mask[i] THEN old[i] ELSE passthru[i]]

\* A pointer into a buffer of scalars: `off` bytes from the start of the
\* buffer, viewed as a value of type ty (a scalar or a vector of scalars).
BufAddr(slot, off, ty) == [slot |-> slot, path |-> <<>>, off |-> off, ty |-> ty]
\* A pointer to a whole allocation, cast to a pointer to ty.
CastAddr(slot, ty) == [slot |-> slot, path |-> <<>>, cast |-> ty]

ScalarBytes(ty) ==
  (getTypeSizeInBits(IF ty.k = "vector" THEN ty.elt ELSE ty) + 1) \div 8

\* A value stored through a cast pointer lies in memory as its scalars.
Flatten(v) == IF isLeaf(v) THEN <<v>> ELSE v

ReadWindow(buf, off, ty) ==
  LET k == off \div ScalarBytes(ty)
      at(i) == IF k + i \in DOMAIN buf THEN buf[k + i] ELSE UndefLeaf
  IN IF ty.k = "vector" THEN [i \in 1..ty.n |-> at(i)] ELSE at(1)

WriteWindow(buf, off, ty, v) ==
  LET k == off \div ScalarBytes(ty)
      n == IF ty.k = "vector" THEN ty.n ELSE 1
  IN [i \in DOMAIN buf |->
        IF i > k /\ i <= k + n
        THEN (IF ty.k = "vector" THEN v[i - k] ELSE v)
        ELSE buf[i]]

ReadPtr(mem, ptr) ==
  IF "off" \in DOMAIN ptr THEN ReadWindow(Flatten(mem[ptr.slot]), ptr.off, ptr.ty)
  ELSE ReadAt(mem[ptr.slot], ptr.path)

WritePtr(mem, ptr, v) ==
  IF "off" \in DOMAIN ptr
  THEN [mem EXCEPT ![ptr.slot] = WriteWindow(@, ptr.off, ptr.ty, v)]
  ELSE IF "cast" \in DOMAIN ptr
  THEN [mem EXCEPT ![ptr.slot] = Flatten(v)]
  ELSE [mem EXCEPT ![ptr.slot] = WriteAt(@, ptr.path, v)]

\* The state of a run: memory, SSA registers, the allocas stored to so far,
\* and the loads executed (with whether their alloca had been stored to).
RunInit == [mem |-> Empty, regs |-> Empty, dirty |-> {}, loads |-> <<>>]

Exec(ins, st) ==
  CASE ins.op = "alloca" ->
         [st EXCEPT !.mem = (ins.id :> UndefOf(ins.ty)) @@ st.mem]
    [] ins.op = "memset0" ->
         [st EXCEPT !.mem = (ins.id :> ZeroOf(ins.ty)) @@ st.mem]
    [] ins.op = "load" ->
         LET v == ReadPtr(st.mem, ins.ptr) IN
         [st EXCEPT !.regs = (ins.id :> v) @@ st.regs,
                    !.loads = Append(@, [id |-> ins.id, v |-> v,
                                         dirty |-> ins.ptr.slot \in st.dirty])]
    [] ins.op = "masked_load" ->
         LET v == MaskedRead(ReadPtr(st.mem, ins.ptr),
                             Eval(ins.passthru, st.regs), ins.mask) IN
         [st EXCEPT !.regs = (ins.id :> v) @@ st.regs]
    [] ins.op = "store" ->
         [st EXCEPT !.mem = WritePtr(@, ins.ptr, Eval(ins.val, st.regs)),
                    !.dirty = @ \cup {ins.ptr.slot}]
    [] ins.op = "masked_store" ->
         [st EXCEPT !.mem = WritePtr(@, ins.ptr,
                                     MaskedWrite(ReadPtr(@, ins.ptr),
                                                 Eval(ins.val, st.regs), ins.mask)),
                    !.dirty = @ \cup {ins.ptr.slot}]
    [] ins.op = "atomicrmw" ->
         [st EXCEPT !.mem = WritePtr(@, ins.ptr,
                                     AddVal(ReadPtr(@, ins.ptr),
                                            Eval(ins.val, st.regs))),
                    !.dirty = @ \cup {ins.ptr.slot}]
    [] OTHER -> st

RECURSIVE RunBlock(_, _)
RunBlock(instrs, st) ==
  IF instrs = <<>> THEN st ELSE RunBlock(Tail(instrs), Exec(Head(instrs), st))

\* Run the blocks of `path` one after the other.
RECURSIVE RunPath(_, _, _)
RunPath(cd, path, st) ==
  IF path = <<>> THEN st
  ELSE RunPath(cd, Tail(path), RunBlock(cd[Head(path)], st))

\* ------------------------------------------------------- the Differential Store
\* getDifferential without the lookup: a slot is allocated on every request.
getDifferentialAlwaysAllocates(E, val) ==
  LET type == getShadowType(TypeOfValue(val))
      a == E.nextId
      E1 == Emit(Emit(E, inversionAllocs, Alloca(a, type)),
                 inversionAllocs, ZeroMemory(a, type))
  IN [E1 EXCEPT !.differentials = (val :> a) @@ E.differentials,
                !.nextId = a + 1,
                !.ret = a]

\* getDifferential without the zero fill of a fresh slot.
getDifferentialNoZero(E, val) ==
  LET type == getShadowType(TypeOfValue(val)) IN
  IF val \in DOMAIN E.differentials
  THEN [E EXCEPT !.ret = E.differentials[val]]
  ELSE LET a == E.nextId
           E1 == Emit(E, inversionAllocs, Alloca(a, type))
       IN [E1 EXCEPT !.differentials = E.differentials @@ (val :> a),
                     !.nextId = a + 1,
                     !.ret = a]

getDifferential(E, val) ==
  LET type == getShadowType(TypeOfValue(val)) IN
  IF val \in DOMAIN E.differentials
  THEN [E EXCEPT !.ret = E.differentials[val]]
  ELSE LET a == E.nextId
           E1 == Emit(Emit(E, inversionAllocs, Alloca(a, type)),
                      inversionAllocs, ZeroMemory(a, type))
       IN [E1 EXCEPT !.differentials = E.differentials @@ (val :> a),
                     !.nextId = a + 1,
                     !.ret = a]

\* ------------------------------------------- the Reverse Control-Flow Builder
\* The constructor's loop over originalBlocks: one fresh reverse block per
\* block other than inversionAllocs.
\* The constructor's loop without the test for inversionAllocs.
RECURSIVE createReverseBlocksNoSkip(_, _)
createReverseBlocksNoSkip(E, blocks) ==
  IF blocks = <<>> THEN E
  ELSE LET BB == Head(blocks)
           RBB == E.nextId
           old == IF BB \in DOMAIN E.reverseBlocks
                  THEN E.reverseBlocks[BB] ELSE <<>>
           E1 == [E EXCEPT
                    !.code = (RBB :> <<>>) @@ E.code,
                    !.reverseBlocks = (BB :> Append(old, RBB)) @@ E.reverseBlocks,
                    !.reverseBlockToPrimal = (RBB :> BB) @@ E.reverseBlockToPrimal,
                    !.nextId = RBB + 1]
       IN createReverseBlocksNoSkip(E1, Tail(blocks))

RECURSIVE createReverseBlocks(_, _)
createReverseBlocks(E, blocks) ==
  IF blocks = <<>> THEN E
  ELSE LET BB == Head(blocks) IN
       IF BB = inversionAllocs
       THEN createReverseBlocks(E, Tail(blocks))
       ELSE LET RBB == E.nextId
                old == IF BB \in DOMAIN E.reverseBlocks
                       THEN E.reverseBlocks[BB] ELSE <<>>
                E1 == [E EXCEPT
                         !.code = (RBB :> <<>>) @@ E.code,
                         !.reverseBlocks = (BB :> Append(old, RBB)) @@ E.reverseBlocks,
                         !.reverseBlockToPrimal = (RBB :> BB) @@ E.reverseBlockToPrimal,
                         !.nextId = RBB + 1]
            IN createReverseBlocks(E1, Tail(blocks))

DiffeGradientUtils(E, blocks) ==
  IF DOMAIN E.reverseBlocks # {} THEN Fail(E)
  ELSE IF E.mode \in ForwardModes THEN E
  ELSE LET E1 == createReverseBlocks(E, blocks) IN
       IF DOMAIN E1.reverseBlocks = {} THEN Fail(E1) ELSE E1

\* ------------------------------------------------- the shadow-pointer lookup
\* GradientUtils::invertPointerM, as far as the engine relies on it: the
\* association's value for val, a placeholder being reserved at first use.
invertPointerM(E, val, B) ==
  IF val \in DOMAIN E.invertedPointers
  THEN [E EXCEPT !.ret = E.invertedPointers[val]]
  ELSE LET id == E.nextId
           ty == getShadowType(TypeOfValue(val))
           E1 == Emit(E, B, PhiNode(id, ty))
       IN [E1 EXCEPT !.invertedPointers = (val :> Phi(ty, id)) @@ E.invertedPointers,
                     !.nextId = id + 1,
                     !.ret = Phi(ty, id)]

\* Value::replaceAllUsesWith over the emitted instructions.
RECURSIVE ReplaceInValue(_, _, _)
ReplaceInValue(x, a, b) ==
  IF x = a THEN b
  ELSE CASE x.e \in {"fadd", "fsub"} ->
              [x EXCEPT !.l = ReplaceInValue(x.l, a, b), !.r = ReplaceInValue(x.r, a, b)]
         [] x.e = "select" ->
              [x EXCEPT !.c = ReplaceInValue(x.c, a, b),
                        !.t = ReplaceInValue(x.t, a, b),
                        !.f = ReplaceInValue(x.f, a, b)]
         [] x.e \in {"bitcast", "fpcast", "extractvalue", "extractelement"} ->
              [x EXCEPT !.x = ReplaceInValue(x.x, a, b)]
         [] OTHER -> x

ReplaceInInstr(ins, a, b) ==
  IF "val" \in DOMAIN ins THEN [ins EXCEPT !.val = ReplaceInValue(ins.val, a, b)]
  ELSE ins

replaceAllUsesWith(cd, a, b) ==
  [B \in DOMAIN cd |-> [i \in 1..Len(cd[B]) |-> ReplaceInInstr(cd[B][i], a, b)]]

\* GradientUtils::erase of a placeholder: its instruction leaves its block.
RECURSIVE DropInstr(_, _)
DropInstr(instrs, id) ==
  IF instrs = <<>> THEN <<>>
  ELSE IF Head(instrs).op = "phi" /\ Head(instrs).id = id
       THEN DropInstr(Tail(instrs), id)
       ELSE <<Head(instrs)>> \o DropInstr(Tail(instrs), id)

erase(cd, id) == [B \in DOMAIN cd |-> DropInstr(cd[B], id)]

\* ------------------------------------------------- the Accumulation Protocol
\* diffe without the assertion on pointer-typed Values.
diffeAllowsPointers(E, val, B) ==
  IF isConstantValue(val) THEN Fail(E)
  ELSE IF E.mode \in ForwardModes THEN invertPointerM(E, val, B)
  ELSE IF isVoidTy(TypeOfValue(val)) THEN Fail(E)
  ELSE LET ty == getShadowType(TypeOfValue(val))
           E1 == getDifferential(E, val)
           id == E1.nextId
           E2 == Emit(E1, B, Load(id, ty, Addr(E1.ret, <<>>)))
       IN [E2 EXCEPT !.nextId = id + 1, !.ret = Ld(ty, id)]

\* diffe without the forward-mode delegation: every mode reads the slot.
diffeIgnoresMode(E, val, B) ==
  IF isConstantValue(val) THEN Fail(E)
  ELSE IF isPointerTy(TypeOfValue(val)) THEN Fail(E)
  ELSE IF isVoidTy(TypeOfValue(val)) THEN Fail(E)
  ELSE LET ty == getShadowType(TypeOfValue(val))
           E1 == getDifferential(E, val)
           id == E1.nextId
           E2 == Emit(E1, B, Load(id, ty, Addr(E1.ret, <<>>)))
       IN [E2 EXCEPT !.nextId = id + 1, !.ret = Ld(ty, id)]

diffe(E, val, B) ==
  IF isConstantValue(val) THEN Fail(E)
  ELSE IF E.mode \in ForwardModes THEN invertPointerM(E, val, B)
  ELSE IF isPointerTy(TypeOfValue(val)) THEN Fail(E)
  ELSE IF isVoidTy(TypeOfValue(val)) THEN Fail(E)
  ELSE LET ty == getShadowType(TypeOfValue(val))
           E1 == getDifferential(E, val)
           id == E1.nextId
           E2 == Emit(E1, B, Load(id, ty, Addr(E1.ret, <<>>)))
       IN [E2 EXCEPT !.nextId = id + 1, !.ret = Ld(ty, id)]

\* setDiffe adding to the slot's contents in the reverse modes.
setDiffeAccumulates(E, val, toset, B) ==
  IF isConstantValue(val) \/ E.mode \in ForwardModes THEN Fail(E)
  ELSE LET E1 == getDifferential(E, val)
           id == E1.nextId
           E2 == Emit(E1, B, Load(id, toset.ty, Addr(E1.ret, <<>>)))
       IN [Emit(E2, B, Store(FAddE(Ld(toset.ty, id), toset), Addr(E1.ret, <<>>)))
             EXCEPT !.nextId = id + 1]

\* setDiffe retargeting the association in the forward modes without the
\* substitution of the placeholder's uses.
setDiffeKeepsUses(E, val, toset, B) ==
  IF isConstantValue(val) THEN Fail(E)
  ELSE IF E.mode \in ForwardModes
  THEN IF getShadowType(TypeOfValue(val)) # toset.ty THEN Fail(E)
       ELSE IF val \notin DOMAIN E.invertedPointers THEN Fail(E)
       ELSE IF E.invertedPointers[val].e # "phi" THEN Fail(E)
       ELSE [E EXCEPT !.invertedPointers = (val :> toset) @@ E.invertedPointers]
  ELSE LET E1 == getDifferential(E, val) IN
       IF toset.ty # getShadowType(TypeOfValue(val)) THEN Fail(E1)
       ELSE Emit(E1, B, Store(toset, Addr(E1.ret, <<>>)))

setDiffe(E, val, toset, B) ==
  IF isConstantValue(val) THEN Fail(E)
  ELSE IF E.mode \in ForwardModes
  THEN IF getShadowType(TypeOfValue(val)) # toset.ty THEN Fail(E)
       ELSE IF val \notin DOMAIN E.invertedPointers THEN Fail(E)
       ELSE LET placeholder == E.invertedPointers[val] IN
            IF placeholder.e # "phi" THEN Fail(E)
            \* (replaceAllUsesWith asserts that a value is not replaced by itself)
            ELSE IF toset = placeholder THEN Fail(E)
            ELSE [E EXCEPT
                    !.code = erase(replaceAllUsesWith(E.code, placeholder, toset),
                                   placeholder.id),
                    !.invertedPointers =
                       (val :> toset)
                         @@ [w \in DOMAIN E.invertedPointers |->
                               ReplaceInValue(E.invertedPointers[w], placeholder, toset)]]
  ELSE LET E1 == getDifferential(E, val) IN
       IF toset.ty # getShadowType(TypeOfValue(val)) THEN Fail(E1)
       ELSE Emit(E1, B, Store(toset, Addr(E1.ret, <<>>)))

\* Constant::isZeroValue on a run-time value tree.
RECURSIVE isZeroVal(_)
isZeroVal(v) ==
  IF isLeaf(v) THEN v.t \in {"f", "p", "i"} /\ v.n = 0
  ELSE \A i \in DOMAIN v : isZeroVal(v[i])

isZeroConstant(x) == x.e = "const" /\ isZeroVal(x.v)

\* CastInst::castIsValid(BitCast, dif, ty) on the types used here.
castIsValid(from, to) ==
  /\ from.k \notin {"struct", "array"} /\ to.k \notin {"struct", "array"}
  /\ isPointerTy(from) = isPointerTy(to)
  /\ getTypeSizeInBits(from) = getTypeSizeInBits(to)

\* IRBuilder::CreateBitCast: nothing for the same type, folded on a Constant.
CreateBitCast(x, ty) ==
  IF x.ty = ty THEN x
  ELSE IF x.e = "const" THEN Const(ty, BitCastVal(x.v, ty))
  ELSE BitCastE(x, ty)

\* extractMeta (Utils): element i of an aggregate value.
extractMeta(dif, i) ==
  IF dif.e \in {"const", "inst"}
  THEN [e |-> dif.e, ty |-> ElementType(dif.ty, i + 1), v |-> dif.v[i + 1]]
  ELSE ExtractE(dif, i)

\* faddForNeg that yields the increment instead of the sum.
faddForNegDropsOld(old, inc) ==
  IF inc.e = "fsub" /\ inc.l.e = "const" /\ isZeroVal(inc.l.v)
  THEN FSubE(inc.l, inc.r)
  ELSE inc

\* The lambda faddForNeg: old + (0 - y) is emitted as old - y.
faddForNeg(old, inc) ==
  IF inc.e = "fsub" /\ inc.l.e = "const" /\ isZeroVal(inc.l.v)
  THEN FSubE(old, inc.r)
  ELSE FAddE(old, inc)

\* faddForSelect with the fused select's branches the wrong way round when
\* the zero is the select's true value.
faddForSelectSwapped(old, dif) ==
  IF dif.e = "select" /\ isZeroConstant(dif.t)
  THEN [res |-> SelectE(dif.c, faddForNeg(old, dif.f), old), fused |-> TRUE]
  ELSE IF dif.e = "select" /\ isZeroConstant(dif.f)
  THEN [res |-> SelectE(dif.c, faddForNeg(old, dif.t), old), fused |-> TRUE]
  ELSE IF dif.e = "bitcast" /\ dif.x.e = "select" /\ isZeroConstant(dif.x.t)
  THEN [res |-> SelectE(dif.x.c, faddForNeg(old, CreateBitCast(dif.x.f, dif.ty)), old),
        fused |-> TRUE]
  ELSE IF dif.e = "bitcast" /\ dif.x.e = "select" /\ isZeroConstant(dif.x.f)
  THEN [res |-> SelectE(dif.x.c,
                        faddForNeg(old, CreateBitCast(dif.x.t, dif.ty)), old),
        fused |-> TRUE]
  ELSE [res |-> faddForNeg(old, dif), fused |-> FALSE]

\* The lambda faddForSelect: the value to store, and whether it is a select
\* this call created (select-fusion).
faddForSelect(old, dif) ==
  IF dif.e = "select" /\ isZeroConstant(dif.t)
  THEN [res |-> SelectE(dif.c, old, faddForNeg(old, dif.f)), fused |-> TRUE]
  ELSE IF dif.e = "select" /\ isZeroConstant(dif.f)
  THEN [res |-> SelectE(dif.c, faddForNeg(old, dif.t), old), fused |-> TRUE]
  ELSE IF dif.e = "bitcast" /\ dif.x.e = "select" /\ isZeroConstant(dif.x.t)
  THEN [res |-> SelectE(dif.x.c, old,
                        faddForNeg(old, CreateBitCast(dif.x.f, dif.ty))),
        fused |-> TRUE]
  ELSE IF dif.e = "bitcast" /\ dif.x.e = "select" /\ isZeroConstant(dif.x.f)
  THEN [res |-> SelectE(dif.x.c,
                        faddForNeg(old, CreateBitCast(dif.x.t, dif.ty)), old),
        fused |-> TRUE]
  ELSE [res |-> faddForNeg(old, dif), fused |-> FALSE]

\* The choice of the float type made whether or not the fallback is enabled.
looseAddingTypeAlwaysGuesses(oldTy, addingType, loose) ==
  IF addingType # NoType THEN addingType
  ELSE IF oldTy = IntTy(64) THEN DoubleTy
  ELSE IF oldTy = IntTy(32) THEN FloatTy
  ELSE NoType

\* The integer branch's choice of the float type to add in.
looseAddingType(oldTy, addingType, loose) ==
  IF addingType # NoType THEN addingType
  ELSE IF ~loose THEN NoType
  ELSE IF oldTy = IntTy(64) THEN DoubleTy
  ELSE IF oldTy = IntTy(32) THEN FloatTy
  ELSE NoType

\* The integer branch with the float type kept as it is given.
broadenAddingTypeNever(oldTy, addingType) == addingType

broadenAddingType(oldTy, addingType) ==
  LET oldBitSize == getTypeSizeInBits(oldTy)
      newBitSize == getTypeSizeInBits(addingType)
  IN IF oldBitSize > newBitSize /\ oldBitSize % newBitSize = 0
        /\ addingType.k # "vector"
     THEN VectorTy(oldBitSize \div newBitSize, addingType)
     ELSE addingType

\* The store that ends a scalar accumulation, always plain.
storeResultDropsMask(E, B, res, ptr, mask) == Emit(E, B, Store(res, ptr))

\* The store that ends a scalar accumulation: plain, or llvm.masked.store,
\* whose alignment is read off the pointer as an alloca.
storeResult(E, B, res, ptr, mask) ==
  IF mask = NoMask THEN Emit(E, B, Store(res, ptr))
  ELSE IF ptr.path # <<>> THEN Fail(E)
  ELSE Emit(E, B, MaskedStore(res, ptr, mask))

RECURSIVE addToDiffe(_, _, _, _, _, _, _)
RECURSIVE addToDiffeElements(_, _, _, _, _, _, _)

\* The element loop leaving at the first pointer-typed struct field instead of
\* going on to the next field.
RECURSIVE addToDiffeElementsStopsAtPointer(_, _, _, _, _, _, _)
addToDiffeElementsStopsAtPointer(E, val, dif, B, addingType, idxs, i) ==
  IF E.failed \/ i >= NumElements(dif.ty) THEN E
  ELSE IF dif.ty.k = "struct" /\ isPointerTy(ElementType(dif.ty, i + 1))
  THEN E
  ELSE LET Er == addToDiffe(E, val, extractMeta(dif, i), B, addingType,
                            Append(idxs, i), NoMask)
       IN addToDiffeElementsStopsAtPointer([Er EXCEPT !.ret = E.ret \o Er.ret],
                                           val, dif, B, addingType, idxs, i + 1)

\* The struct and array branches' loop over the elements of dif, from
\* element i on; pointer-typed struct fields are skipped.
addToDiffeElements(E, val, dif, B, addingType, idxs, i) ==
  IF E.failed \/ i >= NumElements(dif.ty) THEN E
  ELSE IF dif.ty.k = "struct" /\ isPointerTy(ElementType(dif.ty, i + 1))
  THEN addToDiffeElements(E, val, dif, B, addingType, idxs, i + 1)
  ELSE LET Er == addToDiffe(E, val, extractMeta(dif, i), B, addingType,
                            Append(idxs, i), NoMask)
       IN addToDiffeElements([Er EXCEPT !.ret = E.ret \o Er.ret],
                             val, dif, B, addingType, idxs, i + 1)

addToDiffe(E, val, dif, B, addingType, idxs, mask) ==
  IF E.mode \notin ReverseModes THEN Fail(E)
  ELSE IF isPointerTy(TypeOfValue(val)) THEN Fail(E)
  ELSE IF isConstantValue(val) THEN Fail(E)
  ELSE
    LET E1 == getDifferential(E, val)
        ptr == Addr(E1.ret, idxs)
        id == E1.nextId
        oldTy == dif.ty
        old == Ld(oldTy, id)
        E2 == [Emit(E1, B, Load(id, oldTy, ptr)) EXCEPT !.nextId = id + 1, !.ret = <<>>]
    IN
    IF isIntOrIntVectorTy(oldTy) THEN
      LET at0 == looseAddingType(oldTy, addingType, looseTypeAnalysis) IN
      IF at0 = NoType THEN Fail(E2)
      ELSE IF ~isFPOrFPVectorTy(at0) THEN Fail(E2)
      ELSE IF ~castIsValid(oldTy, broadenAddingType(oldTy, at0)) THEN Fail(E2)
      ELSE
        LET at == broadenAddingType(oldTy, at0)
            bcold == CreateBitCast(old, at)
            bcdif == CreateBitCast(dif, at)
            r == faddForSelect(bcold, bcdif)
            res == IF r.fused
                   THEN SelectE(r.res.c, CreateBitCast(r.res.t, oldTy),
                                CreateBitCast(r.res.f, oldTy))
                   ELSE CreateBitCast(r.res, oldTy)
        IN storeResult(E2, B, res, ptr, mask)
    ELSE IF isFPOrFPVectorTy(oldTy) THEN
      LET r == faddForSelect(old, dif)
          E3 == storeResult(E2, B, r.res, ptr, mask)
      IN IF r.fused /\ ~E3.failed THEN [E3 EXCEPT !.ret = <<r.res>>] ELSE E3
    ELSE IF oldTy.k = "struct" THEN
      IF mask # NoMask THEN Fail(E2)
      ELSE addToDiffeElements(E2, val, dif, B, NoType, idxs, 0)
    ELSE IF oldTy.k = "array" THEN
      IF mask # NoMask THEN Fail(E2)
      ELSE IF isPointerTy(oldTy.elt) THEN E2
      ELSE addToDiffeElements(E2, val, dif, B, addingType, idxs, 0)
    ELSE Fail(E2)

\* ------------------------------------------- Shadow-Pointer Accumulation
\* The shadow of a pointer Value (what invertPointerM yields for it once the
\* shadow exists), and the run-time buffer it points to.
ShadowBuf(v) ==
  CASE v = "p" -> -1 [] v = "pa" -> -2 [] v = "pb" -> -3
    [] v = "a" -> -4 [] v = "b" -> -5 [] v = "ret" -> -6 [] OTHER -> -7
ShadowOf(v) == [e |-> "shadow", ty |-> PtrTy, buf |-> ShadowBuf(v)]
PtrSlot(x) == IF x.e = "shadow" THEN x.buf ELSE x.id

TypeBytes(ty) == (getTypeSizeInBits(ty) + 1) \div 8

\* The alignment put on an access `start` bytes into the object (0: none).
adjustAlign(align, start) ==
  IF align # 0 /\ start # 0 /\ start % align # 0 THEN 1 ELSE align

\* The rule that brings dif to addingType: the bytes from `start` on are read
\* back through a packed struct in the entry block, and a remaining type
\* mismatch is bitcast, or goes through memory when no bitcast is valid.
convertDif(E, dif, addingType, start, size, B) ==
  LET prevSize == TypeBytes(dif.ty)
      ST == StructTy(<<ArrayTy(start, IntTy(8)), addingType,
                       ArrayTy(prevSize - start - size, IntTy(8))>>)
      Al == E.nextId
      Ea == IF start = 0 THEN E
            ELSE [Emit(Emit(Emit(E, inversionAllocs, Alloca(Al, ST)),
                            B, Store(dif, CastAddr(Al, dif.ty))),
                       B, Load(Al + 1, addingType, BufAddr(Al, start, addingType)))
                    EXCEPT !.nextId = Al + 2]
      d1 == IF start = 0 THEN dif ELSE Ld(addingType, Al + 1)
  IN IF d1.ty = addingType THEN [Ea EXCEPT !.ret = d1]
     ELSE IF TypeBytes(d1.ty) < size THEN Fail(Ea)
     ELSE IF castIsValid(d1.ty, addingType)
     THEN [Ea EXCEPT !.ret = CreateBitCast(d1, addingType)]
     ELSE LET A2 == Ea.nextId IN
          [Emit(Emit(Emit(Ea, inversionAllocs, Alloca(A2, addingType)),
                     B, Store(d1, CastAddr(A2, d1.ty))),
                B, Load(A2 + 1, addingType, BufAddr(A2, 0, addingType)))
             EXCEPT !.nextId = A2 + 2, !.ret = Ld(addingType, A2 + 1)]

\* The choice of atomics with the AtomicAdd toggle taken as off.
useAtomicNever(TmpOrig) == FALSE

\* The choice of atomics without the test for backwards-only shadows.
useAtomicIgnoresShadows(TmpOrig) ==
  IF isAllocaInst(TmpOrig) /\ Arch \in {"nvptx", "nvptx64", "amdgcn"} THEN FALSE
  ELSE AtomicAdd

\* `bool Atomic`: the AtomicAdd toggle, unless the underlying object is an
\* alloca on a GPU target or a backwards-only shadow.
useAtomic(TmpOrig) ==
  IF TmpOrig \in backwardsOnlyShadows THEN FALSE
  ELSE IF isAllocaInst(TmpOrig) /\ Arch \in {"nvptx", "nvptx64", "amdgcn"} THEN FALSE
  ELSE AtomicAdd

\* The atomic branch: one atomicrmw fadd, or one per element of a vector.
RECURSIVE atomicElements(_, _, _, _, _, _, _)
atomicElements(E, B, ptr, dif, vt, alignv, i) ==
  IF i >= vt.n THEN E
  ELSE atomicElements(
         Emit(E, B, AtomicRMW(BufAddr(ptr.slot, ptr.off + i * TypeBytes(vt.elt), vt.elt),
                              ExtractElementE(dif, i), alignv)),
         B, ptr, dif, vt, alignv, i + 1)

atomicAccumulate(E, B, ptr, dif, addingType, start, align, mask) ==
  IF mask # NoMask THEN Fail(E)
  ELSE IF LLVM_VERSION_MAJOR < 9 THEN Fail(E)
  ELSE LET alignv == IF LLVM_VERSION_MAJOR >= 11 THEN adjustAlign(align, start) ELSE 0
       IN IF addingType.k = "vector"
          THEN atomicElements(E, B, ptr, dif, addingType, alignv, 0)
          ELSE Emit(E, B, AtomicRMW(ptr, dif, alignv))

\* The plain branch storing the increment instead of the sum.
plainAccumulateDropsOld(E, B, ptr, dif, addingType, start, size, orig, align) ==
  LET id == E.nextId
      attrs == [align |-> adjustAlign(align, start),
                origMD |-> (start = 0 /\ size = (getTypeSizeInBits(orig.ty) + 7) \div 8)]
      LI == Load(id, addingType, ptr) @@ attrs
      st == Store(dif, ptr) @@ attrs
  IN [Emit(Emit(E, B, LI), B, st) EXCEPT !.nextId = id + 1]

\* The plain branch: load, fadd, store; the original instruction's metadata
\* is copied when the access covers exactly what the instruction addresses.
plainAccumulate(E, B, ptr, dif, addingType, start, size, orig, align) ==
  LET id == E.nextId
      attrs == [align |-> adjustAlign(align, start),
                origMD |-> (start = 0 /\ size = (getTypeSizeInBits(orig.ty) + 7) \div 8)]
      LI == Load(id, addingType, ptr) @@ attrs
      st == Store(FAddE(Ld(addingType, id), dif), ptr) @@ attrs
  IN [Emit(Emit(E, B, LI), B, st) EXCEPT !.nextId = id + 1]

\* The masked branch with a plain store in place of llvm.masked.store.
maskedAccumulatePlainStore(E, B, ptr, dif, addingType, start, align, mask) ==
  LET id == E.nextId
      aligni == adjustAlign(align, start)
      LI == MaskedLoad(id, addingType, ptr, aligni, mask, Const(dif.ty, ZeroOf(dif.ty)))
      res == FAddE(Ld(addingType, id), dif)
  IN [Emit(Emit(E, B, LI), B, Store(res, ptr)) EXCEPT !.nextId = id + 1]

\* The masked branch: llvm.masked.load with a zero passthru, fadd,
\* llvm.masked.store.
maskedAccumulate(E, B, ptr, dif, addingType, start, align, mask) ==
  LET id == E.nextId
      aligni == adjustAlign(align, start)
      LI == MaskedLoad(id, addingType, ptr, aligni, mask, Const(dif.ty, ZeroOf(dif.ty)))
      res == FAddE(Ld(addingType, id), dif)
  IN [Emit(Emit(E, B, LI), B, MaskedStore(res, ptr, mask) @@ [align |-> aligni])
        EXCEPT !.nextId = id + 1]

\* lookupM is taken to yield the shadow pointer itself in the reverse block;
\* address spaces and alias-scope metadata are left out.
addToInvertedPtrDiffe(E, orig, addingType0, start, size0, origptr, dif0, B, align, mask) ==
  LET addingSize == TypeBytes(addingType0) IN
  IF addingSize # size0 /\ ~(size0 > addingSize) THEN Fail(E)
  ELSE
    LET addingType == IF addingSize # size0
                      THEN VectorTy(size0 \div addingSize, addingType0)
                      ELSE addingType0
        size == IF addingSize # size0 THEN (size0 \div addingSize) * addingSize
                ELSE size0
        E1 == invertPointerM(E, origptr, B)
        ptr == BufAddr(PtrSlot(E1.ret), start, addingType)
        E2 == IF start # 0 \/ dif0.ty # addingType
              THEN convertDif(E1, dif0, addingType, start, size, B)
              ELSE [E1 EXCEPT !.ret = dif0]
        dif == E2.ret
        TmpOrig == getUnderlyingObject(origptr)
    IN IF E2.failed THEN E2
       ELSE IF useAtomic(TmpOrig)
       THEN atomicAccumulate(E2, B, ptr, dif, addingType, start, align, mask)
       ELSE IF mask = NoMask
       THEN plainAccumulate(E2, B, ptr, dif, addingType, start, size, orig, align)
       ELSE maskedAccumulate(E2, B, ptr, dif, addingType, start, align, mask)

\* ------------------------------------------------ the Cache Release Scheduler
isTerminator(ins) == ins.op \in {"br", "ret"}

\* tbuild left at the end of the block, whatever the block ends with.
InsertAfterTerminator(instrs, ins) == Append(instrs, ins)

\* tbuild: at the end of the block, before its terminator if it has one.
InsertAtEnd(instrs, ins) ==
  IF Len(instrs) > 0 /\ isTerminator(instrs[Len(instrs)])
  THEN Append(SubSeq(instrs, 1, Len(instrs) - 1), ins) \o <<instrs[Len(instrs)]>>
  ELSE Append(instrs, ins)

\* Only the loops of scope i.
LoopsOfOneScope(sublimits, i, j) ==
  [k \in 1..Len(sublimits[i + 1]) |-> sublimits[i + 1][Len(sublimits[i + 1]) + 1 - k]]

\* The loops of sublimits[j] for j from the last scope down to scope i (scopes
\* are numbered from 0), each scope's loops innermost last, read backwards.
RECURSIVE LoopsToReload(_, _, _)
LoopsToReload(sublimits, i, j) ==
  IF j < i THEN <<>>
  ELSE LET loops == sublimits[j + 1] IN
       [k \in 1..Len(loops) |-> loops[Len(loops) + 1 - k]]
       \o LoopsToReload(sublimits, i, j - 1)

\* One load of idx.antivaralloc per loop that has an induction variable; the
\* result is the engine with the loads emitted, and antimap in ret.
RECURSIVE reloadInductionVars(_, _, _, _)
reloadInductionVars(E, tb, loops, antimap) ==
  IF loops = <<>> THEN [E EXCEPT !.ret = antimap]
  ELSE LET idx == Head(loops) IN
       IF idx.var = "" THEN reloadInductionVars(E, tb, Tail(loops), antimap)
       ELSE LET id == E.nextId
                ins == [op |-> "load_antivar", id |-> id, var |-> idx.var,
                        alloc |-> idx.antivaralloc]
                E1 == [E EXCEPT !.code[tb] = InsertAtEnd(@, ins), !.nextId = id + 1]
            IN reloadInductionVars(E1, tb, Tail(loops),
                                   (idx.var :> id) @@ antimap)

\* GradientUtils::unwrapM of the address expression: every induction variable
\* the expression uses is taken from antimap when it is there.
unwrapM(storeInto, antimap) ==
  [e |-> "cacheaddr", ty |-> PtrTy, alloc |-> storeInto.alloc,
   reloaded |-> storeInto.vars \cap DOMAIN antimap,
   forward |-> storeInto.vars \ DOMAIN antimap]

\* freeCache making its assertions on the reverse blocks before it looks at
\* FreeMemory.
freeCacheAssertsFirst(E, forwardPreheader, sublimits, i, alloc, byteSizeOfType, storeInto, deallocIsCall) ==
  IF forwardPreheader \notin DOMAIN E.reverseBlocks THEN Fail(E)
  ELSE IF Len(E.reverseBlocks[forwardPreheader]) = 0 THEN Fail(E)
  ELSE [E EXCEPT !.ret = 0]

\* freeCache reading reverseBlocks[forwardPreheader] without the assertions:
\* the map's operator[] inserts an empty list for a block it does not hold.
freeCacheInsertsKey(E, forwardPreheader, sublimits, i, alloc, byteSizeOfType, storeInto, deallocIsCall) ==
  IF ~FreeMemory THEN [E EXCEPT !.ret = 0]
  ELSE Fail([E EXCEPT !.reverseBlocks =
                         IF forwardPreheader \in DOMAIN E.reverseBlocks
                         THEN E.reverseBlocks
                         ELSE (forwardPreheader :> <<>>) @@ E.reverseBlocks])

freeCache(E, forwardPreheader, sublimits, i, alloc, byteSizeOfType, storeInto, deallocIsCall) ==
  IF ~FreeMemory THEN [E EXCEPT !.ret = 0]
  ELSE IF forwardPreheader \notin DOMAIN E.reverseBlocks THEN Fail(E)
  ELSE IF Len(E.reverseBlocks[forwardPreheader]) = 0 THEN Fail(E)
  ELSE
    LET rb == E.reverseBlocks[forwardPreheader]
        tb == rb[Len(rb)]
        E1 == reloadInductionVars(E, tb, LoopsToReload(sublimits, i, Len(sublimits) - 1),
                                  Empty)
        metaforfree == unwrapM(storeInto, E1.ret)
        lid == E1.nextId
        forfree == [op |-> "load_forfree", id |-> lid, addr |-> metaforfree,
                    dereferenceable |-> byteSizeOfType]
        E2 == [E1 EXCEPT !.code[tb] = InsertAtEnd(@, forfree), !.nextId = lid + 1]
        cid == E2.nextId
        ci == [op |-> "free", id |-> cid, ptr |-> lid]
    IN IF ~deallocIsCall THEN [E2 EXCEPT !.ret = 0]
       ELSE [E2 EXCEPT
               !.code[tb] = InsertAtEnd(@, ci),
               !.nextId = cid + 1,
               !.scopeFrees =
                  (alloc :> ((IF alloc \in DOMAIN E2.scopeFrees
                              THEN E2.scopeFrees[alloc] ELSE {}) \cup {cid}))
                  @@ E2.scopeFrees,
               !.ret = cid]

\* --------------------------------------------- the transformed program, run
\* No thread runs.  When threads run, each is at instruction pc[t] of the same
\* instructions `prog` with registers and stack slots of its own, over one
\* memory they share.
NoThreads ==
  [run |-> "idle", prog |-> <<>>, mem |-> Empty, pc |-> <<>>, regs |-> <<>>,
   stack |-> <<>>]

\* A parallel region of the transformed program starts: every logical thread
\* is to run the allocation block and then the block B. Generation is over.
Launch(mem0) ==
  /\ phase = "ready" /\ ~failed /\ threads.run = "idle"
  /\ \E B \in DOMAIN code \ {inversionAllocs} :
       /\ code[B] # <<>>
       /\ threads' = [run |-> "running", prog |-> code[inversionAllocs] \o code[B],
                      mem |-> mem0,
                      pc |-> [t \in 1..MaxThreads |-> 1],
                      regs |-> [t \in 1..MaxThreads |-> Empty],
                      stack |-> [t \in 1..MaxThreads |-> Empty]]
  /\ phase' = "run"
  /\ UNCHANGED <<failed, mode, originalBlocks, reverseBlocks,
                 reverseBlockToPrimal, differentials, invertedPointers, code,
                 scopeFrees, FreeMemory, looseTypeAnalysis, AtomicAdd, Arch,
                 LLVM_VERSION_MAJOR, backwardsOnlyShadows, nextId, budget,
                 last, accessed, requested, sums, overwritten, loop>>

\* One thread executes its next instruction; an instruction is one step.
ThreadStep ==
  /\ threads.run = "running"
  /\ \E t \in 1..MaxThreads :
       /\ threads.pc[t] <= Len(threads.prog)
       /\ LET st == Exec(threads.prog[threads.pc[t]],
                         [RunInit EXCEPT !.mem = threads.stack[t] @@ threads.mem,
                                         !.regs = threads.regs[t]])
              shared == DOMAIN threads.mem
          IN threads' = [threads EXCEPT
                           !.mem = [b \in shared |-> st.mem[b]],
                           !.stack[t] = [b \in DOMAIN st.mem \ shared |-> st.mem[b]],
                           !.regs[t] = st.regs,
                           !.pc[t] = @ + 1]
  /\ UNCHANGED <<phase, failed, mode, originalBlocks, reverseBlocks,
                 reverseBlockToPrimal, differentials, invertedPointers, code,
                 scopeFrees, FreeMemory, looseTypeAnalysis, AtomicAdd, Arch,
                 LLVM_VERSION_MAJOR, backwardsOnlyShadows, nextId, budget,
                 last, accessed, requested, sums, overwritten, loop>>

\* ---------------------------------------------------------------- the driver
\* What the surrounding adjoint generator may pass in.
ForwardBlocks(n) == [i \in 1..n |-> i]

BuilderBlocks ==
  IF mode \in ReverseModes THEN DOMAIN reverseBlockToPrimal
  ELSE {originalBlocks[i] : i \in 1..Len(originalBlocks)} \ {inversionAllocs}

\* Increments and whole values of a type.
ValuesOfTy(ty) ==
  \* (the last float is a PHI node of the generator's own, not a placeholder)
  CASE ty = FloatTy -> {Const(ty, F(1)), Inst(ty, F(2)), Phi(ty, -8)}
    [] ty = PtrTy -> {Const(ty, P(0))}
    [] ty = StructTy(<<FloatTy, PtrTy, FloatTy>>) ->
         {Const(ty, <<F(1), P(0), F(2)>>), Inst(ty, <<F(2), P(1), F(1)>>)}
    [] ty = ArrayTy(2, FloatTy) ->
         {Const(ty, <<F(1), F(2)>>), Inst(ty, <<F(2), F(1)>>)}
    [] ty = ArrayTy(2, PtrTy) ->
         {Const(ty, <<P(0), P(0)>>), Inst(ty, <<P(1), P(1)>>)}
    [] ty = StructTy(<<ArrayTy(2, FloatTy), ArrayTy(2, PtrTy)>>) ->
         {Const(ty, << <<F(1), F(2)>>, <<P(0), P(0)>> >>),
          Inst(ty, << <<F(2), F(1)>>, <<P(1), P(1)>> >>)}
    [] ty = VoidTy -> {Const(ty, UndefLeaf)}
    [] ty = IntTy(64) -> {Const(ty, I(BitsOfFloat(1))), Inst(ty, I(BitsOfFloat(2)))}
    [] ty = IntTy(32) -> {Const(ty, I(BitsOfFloat(1))), Inst(ty, I(BitsOfFloat(2)))}
    [] ty = IntTy(96) -> {Inst(ty, I(BitsOfFloat(1)))}
    [] ty = VectorTy(4, FloatTy) ->
         {Const(ty, <<F(1), F(1), F(1), F(1)>>), Inst(ty, <<F(1), F(2), F(3), F(4)>>)}
    [] ty = ArrayTy(2, VectorTy(4, FloatTy)) ->
         {Const(ty, << <<F(1), F(1), F(1), F(1)>>, <<F(1), F(2), F(3), F(4)>> >>)}
    [] ty = StructTy(<<FloatTy, IntTy(64)>>) ->
         {Const(ty, <<F(1), I(BitsOfFloat(1))>>)}
    [] ty = StructTy(<<VectorTy(4, FloatTy), PtrTy>>) ->
         {Const(ty, << <<F(1), F(1), F(1), F(1)>>, P(0) >>)}
    [] OTHER -> {}

\* The operands of the kinds asked for; "zero" asks for the null value.
\* Increments that are a two-way choice between zero and x: the zero in
\* either branch, x possibly written as 0 - y, the select possibly made in the
\* type of the same width on the other side of a bitcast.
OtherSide(ty) ==
  CASE ty = FloatTy -> IntTy(32)
    [] ty = IntTy(64) -> DoubleTy
    [] OTHER -> ty
SelectBranches(ty) ==
  CASE ty.k = "int" ->
         {Inst(ty, I(BitsOfFloat(2))),
          BitCastE(FSubE(Const(OtherSide(ty), F(0)), Inst(OtherSide(ty), F(1))), ty)}
    [] OTHER -> {Inst(ty, F(2)), FSubE(Const(ty, F(0)), Inst(ty, F(1)))}
SelectsIn(ty) ==
  UNION {{SelectE(Inst(IntTy(1), Bool(c)), Const(ty, ZeroOf(ty)), x),
          SelectE(Inst(IntTy(1), Bool(c)), x, Const(ty, ZeroOf(ty)))} :
           c \in BOOLEAN, x \in SelectBranches(ty)}
SelectsOfTy(ty) ==
  SelectsIn(ty) \cup {BitCastE(x, ty) : x \in SelectsIn(OtherSide(ty))}

OperandsOfTy(ty, kinds) ==
  {x \in ValuesOfTy(ty) : x.e \in kinds}
    \cup (IF "zero" \in kinds THEN {Const(ty, ZeroOf(ty))} ELSE {})
    \cup (IF "select" \in kinds THEN SelectsOfTy(ty) ELSE {})
    \cup (IF "lanes" \in kinds /\ ty = IntTy(64)
          THEN {Inst(ty, BitsOfLanes(<<F(1), F(2)>>))} ELSE {})

\* The index paths into a value of type ty: the whole value or one element.
IndexPaths(ty) ==
  {<<>>} \cup (IF isAggregateTy(ty) THEN {<<i>> : i \in 0..(NumElements(ty) - 1)}
               ELSE {})

RECURSIVE TypeAt(_, _)
TypeAt(ty, path) ==
  IF path = <<>> THEN ty ELSE TypeAt(ElementType(ty, Head(path) + 1), Tail(path))

Masks == {NoMask}

\* The call just made, and what the calls so far add up to.
Call(op, val) ==
  [op |-> op, val |-> val, B |-> 0, dif |-> Const(VoidTy, UndefLeaf), idxs |-> <<>>,
   mask |-> NoMask, args |-> <<>>, ok |-> TRUE, ret |-> <<>>]

Commit(E, call) ==
  /\ failed' = E.failed
  /\ reverseBlocks' = E.reverseBlocks
  /\ reverseBlockToPrimal' = E.reverseBlockToPrimal
  /\ differentials' = E.differentials
  /\ invertedPointers' = E.invertedPointers
  /\ code' = E.code
  /\ scopeFrees' = E.scopeFrees
  /\ nextId' = E.nextId
  /\ last' = [call EXCEPT !.ok = ~E.failed, !.ret = <<E.ret>>]
  /\ UNCHANGED <<mode, originalBlocks, FreeMemory, looseTypeAnalysis,
                 AtomicAdd, Arch, LLVM_VERSION_MAJOR, backwardsOnlyShadows>>

Ready == phase = "ready" /\ ~failed

Construct ==
  /\ phase = "new"
  /\ phase' = "ready"
  /\ Commit(DiffeGradientUtils(Eng, originalBlocks), Call("construct", ""))
  /\ UNCHANGED <<budget, accessed, requested, sums, overwritten, loop, threads>>

\* The engine's operations, called on Values of `vals`.
GetDifferentialOn(vals) ==
  /\ Ready /\ budget > 0
  /\ \E val \in vals :
       /\ Commit(getDifferential(Eng, val), Call("getDifferential", val))
       /\ requested' = requested \cup {val}
  /\ budget' = budget - 1
  /\ UNCHANGED <<phase, accessed, sums, overwritten, loop, threads>>

DiffeOn(vals) ==
  /\ Ready /\ budget > 0
  /\ \E val \in vals, B \in BuilderBlocks :
       LET E == diffe(Eng, val, B) IN
       /\ Commit(E, [Call("diffe", val) EXCEPT !.B = B])
       /\ accessed' = IF E.failed THEN accessed ELSE accessed \cup {val}
  /\ budget' = budget - 1
  /\ UNCHANGED <<phase, requested, sums, overwritten, loop, threads>>

\* addToDiffe with the whole value as the target, or (sub) also one element.
AddToDiffeOn(vals, kinds, sub, masks) ==
  /\ Ready /\ budget > 0
  /\ \E val \in vals, B \in BuilderBlocks :
       \E idxs \in (IF sub THEN IndexPaths(TypeOfValue(val)) ELSE {<<>>}),
          mask \in masks :
         \E dif \in OperandsOfTy(TypeAt(TypeOfValue(val), idxs), kinds) :
           LET E == addToDiffe(Eng, val, dif, B, NoType, idxs, mask) IN
           /\ Commit(E, [Call("addToDiffe", val) EXCEPT
                           !.B = B, !.dif = dif, !.idxs = idxs, !.mask = mask])
           /\ accessed' = IF E.failed THEN accessed ELSE accessed \cup {val}
           /\ sums' = IF E.failed \/ idxs # <<>> \/ TypeOfValue(val) # FloatTy
                      THEN sums
                      ELSE [sums EXCEPT ![val] = @ + Eval(dif, Empty).n]
  /\ budget' = budget - 1
  /\ UNCHANGED <<phase, requested, overwritten, loop, threads>>

\* addToDiffe on a whole Value, with the float type to add in given or not.
AddToDiffeAsOn(vals, kinds, addingTypes) ==
  /\ Ready /\ budget > 0
  /\ \E val \in vals, B \in BuilderBlocks, addingType \in addingTypes :
       \E dif \in OperandsOfTy(TypeOfValue(val), kinds) :
         LET E == addToDiffe(Eng, val, dif, B, addingType, <<>>, NoMask) IN
         /\ Commit(E, [Call("addToDiffe", val) EXCEPT
                         !.B = B, !.dif = dif, !.args = <<addingType>>])
         /\ accessed' = IF E.failed THEN accessed ELSE accessed \cup {val}
  /\ budget' = budget - 1
  /\ UNCHANGED <<phase, requested, sums, overwritten, loop, threads>>

SetDiffeOn(vals, kinds) ==
  /\ Ready /\ budget > 0
  /\ \E val \in vals, B \in BuilderBlocks :
       \E toset \in OperandsOfTy(TypeOfValue(val), kinds) :
         LET E == setDiffe(Eng, val, toset, B) IN
         /\ Commit(E, [Call("setDiffe", val) EXCEPT !.B = B, !.dif = toset])
         /\ accessed' = IF E.failed THEN accessed ELSE accessed \cup {val}
         /\ overwritten' = IF E.failed THEN overwritten ELSE overwritten \cup {val}
  /\ budget' = budget - 1
  /\ UNCHANGED <<phase, requested, sums, loop, threads>>

\* Loop scopes of the cache: an outer loop "i", an inner scope with a loop
\* without an induction variable and a loop "j".
LoopI == [var |-> "i", antivaralloc |-> "i'ac"]
LoopJ == [var |-> "j", antivaralloc |-> "j'ac"]
LoopNoVar == [var |-> "", antivaralloc |-> ""]
SubLimits == << <<LoopI>>, <<LoopNoVar, LoopJ>> >>
CacheAllocs == {"cacheA", "cacheB"}

\* freeCache for a forward block (or the allocation block), from scope i on.
FreeCacheOn(allocs, scopes, calls) ==
  /\ Ready /\ budget > 0
  /\ \E fwd \in {originalBlocks[k] : k \in 1..Len(originalBlocks)} \cup {inversionAllocs},
        i \in scopes, alloc \in allocs, deallocIsCall \in calls :
       Commit(freeCache(Eng, fwd, SubLimits, i, alloc, 8,
                        [alloc |-> alloc, vars |-> {"i", "j"}], deallocIsCall),
              [Call("freeCache", alloc) EXCEPT !.B = fwd, !.args = <<i>>])
  /\ budget' = budget - 1
  /\ UNCHANGED <<phase, accessed, requested, sums, overwritten, loop, threads>>

\* The adjoint generator closes a reverse block with a branch.
TerminateOn ==
  /\ Ready
  /\ \E R \in DOMAIN reverseBlockToPrimal :
       /\ ~(Len(code[R]) > 0 /\ isTerminator(code[R][Len(code[R])]))
       /\ Commit(Emit(Eng, R, [op |-> "br"]), [Call("terminate", "") EXCEPT !.B = R])
  /\ UNCHANGED <<phase, budget, accessed, requested, sums, overwritten, loop, threads>>

\* The adjoint generator splits the reverse of a forward block: a new, empty
\* block joins the end of the forward block's list.
SplitReverseOn ==
  /\ Ready /\ budget > 0
  /\ \E fwd \in DOMAIN reverseBlocks :
       LET RBB == nextId
           E == [Eng EXCEPT
                   !.code = (RBB :> <<>>) @@ code,
                   !.reverseBlocks = [reverseBlocks EXCEPT ![fwd] = Append(@, RBB)],
                   !.reverseBlockToPrimal = (RBB :> fwd) @@ reverseBlockToPrimal,
                   !.nextId = RBB + 1]
       IN Commit(E, [Call("split", "") EXCEPT !.B = fwd])
  /\ budget' = budget - 1
  /\ UNCHANGED <<phase, accessed, requested, sums, overwritten, loop, threads>>

\* The derivative of val is asked for and added into the shadow of a pointer,
\* as a float.
AccumulateDiffeOn(vals, ptrs) ==
  /\ Ready /\ budget > 0
  /\ \E val \in vals, origptr \in ptrs, B \in BuilderBlocks :
       LET E1 == diffe(Eng, val, B)
           E == IF E1.failed THEN E1
                ELSE addToInvertedPtrDiffe(E1, [ty |-> FloatTy], FloatTy, 0, 4, origptr,
                                           E1.ret, B, 4, NoMask)
       IN /\ Commit(E, [Call("accumulateDiffe", val) EXCEPT !.B = B])
          /\ accessed' = IF E.failed THEN accessed ELSE accessed \cup {val}
  /\ budget' = budget - 1
  /\ UNCHANGED <<phase, requested, sums, overwritten, loop, threads>>

\* What addToInvertedPtrDiffe is called with: a float added to a float, four
\* floats added as a vector (plain and under two masks), two floats taken
\* four bytes into a vector of four, an i32 holding a float, and a width
\* smaller than the adding type.
V4 == VectorTy(4, FloatTy)
PtrCase(orig, addingType, start, size, dif, align, mask) ==
  [orig |-> [ty |-> orig], addingType |-> addingType, start |-> start,
   size |-> size, dif |-> dif, align |-> align, mask |-> mask]
PtrCases ==
  {PtrCase(FloatTy, FloatTy, 0, 4, Const(FloatTy, F(1)), 4, NoMask),
   PtrCase(V4, FloatTy, 0, 16, Const(V4, <<F(1), F(1), F(1), F(1)>>), 0, NoMask),
   PtrCase(V4, FloatTy, 0, 16, Const(V4, <<F(1), F(1), F(1), F(1)>>), 4,
           <<TRUE, FALSE, TRUE, FALSE>>),
   PtrCase(V4, FloatTy, 0, 16, Inst(V4, <<F(1), F(2), F(3), F(4)>>), 4,
           <<FALSE, TRUE, TRUE, TRUE>>),
   PtrCase(V4, FloatTy, 4, 8, Inst(V4, <<F(1), F(2), F(3), F(4)>>), 8, NoMask),
   PtrCase(FloatTy, FloatTy, 0, 4, Const(IntTy(32), I(1)), 4, NoMask),
   PtrCase(FloatTy, DoubleTy, 0, 4, Const(FloatTy, F(1)), 4, NoMask)}

AddToInvertedPtrDiffeOn(ptrs, cases) ==
  /\ Ready /\ budget > 0
  /\ \E origptr \in ptrs, B \in BuilderBlocks, c \in cases :
       Commit(addToInvertedPtrDiffe(Eng, c.orig, c.addingType, c.start, c.size,
                                    origptr, c.dif, B, c.align, c.mask),
              [Call("addToInvertedPtrDiffe", origptr) EXCEPT
                 !.B = B, !.dif = c.dif, !.mask = c.mask, !.args = c])
  /\ budget' = budget - 1
  /\ UNCHANGED <<phase, accessed, requested, sums, overwritten, loop, threads>>

\* The engine before its constructor ran, for a function of n forward blocks
\* whose block list holds the allocation block or not.
InitEngineOn(ns, allocs, shadows) ==
  /\ phase = "new"
  /\ failed = FALSE
  /\ \E n \in ns, withAllocs \in allocs :
       originalBlocks = (IF withAllocs THEN <<inversionAllocs>> ELSE <<>>)
                        \o ForwardBlocks(n)
  /\ reverseBlocks = Empty
  /\ reverseBlockToPrimal = Empty
  /\ differentials = Empty
  /\ invertedPointers = shadows
  /\ code = [B \in {originalBlocks[k] : k \in 1..Len(originalBlocks)}
                   \cup {inversionAllocs} |-> <<>>]
  /\ scopeFrees = Empty
  /\ nextId = MaxBlocks + 1
  /\ last = Call("", "")
  /\ accessed = {}
  /\ requested = {}
  /\ sums = [v \in Values |-> 0]
  /\ overwritten = {}
  /\ threads = NoThreads

\* No gradient of compute_loops is being generated.
NoLoop == loop = [gen |-> 0, run |-> "none", K |-> 0, iter |-> 0, st |-> RunInit]

InitEngine == InitEngineOn(1..MaxBlocks, BOOLEAN, Empty)

\* A host build: no atomics asked for, the newest LLVM of the build matrix.
HostBuild ==
  /\ AtomicAdd = FALSE
  /\ Arch = "x86_64"
  /\ LLVM_VERSION_MAJOR = 13
  /\ backwardsOnlyShadows = {}

\* ----- the differential store and the block maps, in every derivative mode
StoreValues == {"x", "s", "p", "c"}

Init ==
  /\ InitEngine
  /\ HostBuild
  /\ NoLoop
  /\ mode \in Modes
  /\ FreeMemory \in BOOLEAN
  /\ looseTypeAnalysis = FALSE
  /\ budget = MaxOps

Next ==
  \/ Construct
  \/ GetDifferentialOn(StoreValues)
  \/ DiffeOn(StoreValues)
  \/ AddToDiffeOn(StoreValues, {"const"}, FALSE, {NoMask})
  \/ SetDiffeOn(StoreValues, {"const"})
  \/ FreeCacheOn({"cacheA"}, {0}, {TRUE})

Spec == Init /\ [][Next]_vars

\* ------------------------------------------------------------------ claims
OriginalSet == {originalBlocks[k] : k \in 1..Len(originalBlocks)}
ForwardSet == OriginalSet \ {inversionAllocs}
\* The blocks the engine added to the function.
CreatedBlocks == DOMAIN code \ (OriginalSet \cup {inversionAllocs})
AllocasIn(instrs) == {k \in 1..Len(instrs) : instrs[k].op = "alloca"}
ProtocolOps == {"diffe", "addToDiffe", "setDiffe"}
\* The Values a protocol call was made on, the aborted last call included.
Called == accessed \cup (IF last.op \in ProtocolOps THEN {last.val} ELSE {})

\* C1 (slot identity): in a reverse mode a step of the engine never removes
\* or replaces the slot of a Value that has one, a getDifferential call
\* returns the slot recorded for its Value, and two Values never have the
\* same slot.
SlotIdentityStep ==
  mode \in ReverseModes =>
       /\ \A v \in DOMAIN differentials :
            v \in DOMAIN differentials' /\ differentials'[v] = differentials[v]
       /\ (last'.op = "getDifferential" =>
             /\ last'.val \in DOMAIN differentials'
             /\ last'.ret = <<differentials'[last'.val]>>)
       /\ \A v, w \in DOMAIN differentials' :
            v # w => differentials'[v] # differentials'[w]

C1_SlotIdentity == [][SlotIdentityStep]_vars

\* A slot created by a protocol call is requested again and returned.
C1_Witness ==
  /\ mode \in ReverseModes
  /\ last.op = "getDifferential" /\ last.ok
  /\ last.val \in accessed
  /\ last.ret = <<differentials[last.val]>>
  /\ Len(code[inversionAllocs]) = 2

\* C2 (slot existence) as claimed: in every mode a Value has a slot if and
\* only if a diffe, addToDiffe or setDiffe call read or wrote it.
\* (A direct getDifferential request is counted as an access here, so that
\* the statement fails only where the protocol itself leaves no slot.)
C2_Original ==
  \A v \in Values : (v \in DOMAIN differentials) <=> (v \in accessed \cup requested)

\* C2 as amended: a slot exists only for a Value that getDifferential was
\* called on directly or that a protocol call was made on in a reverse mode;
\* in a reverse mode every Value a protocol call returned for has a slot; and
\* the entry block holds exactly one alloca per slot.
C2_SlotExistence ==
  /\ \A v \in DOMAIN differentials :
       v \in requested \/ (mode \in ReverseModes /\ v \in Called)
  /\ mode \in ReverseModes => accessed \subseteq DOMAIN differentials
  /\ \A v \in DOMAIN differentials :
       Cardinality({k \in AllocasIn(code[inversionAllocs]) :
                      code[inversionAllocs][k].id = differentials[v]}) = 1
  /\ \A v, w \in DOMAIN differentials : v # w => differentials[v] # differentials[w]

\* A forward-mode diffe returned and no slot exists.
C2_Witness ==
  /\ mode \in ForwardModes
  /\ last.op = "diffe" /\ last.ok
  /\ accessed # {}
  /\ DOMAIN differentials = {}

\* C6 (mode gating): once constructed, a forward-mode engine has no reverse
\* block, and a reverse-mode engine has exactly one reverse block per block
\* of the function other than the allocation block.
C6_ModeGating ==
  phase = "ready" =>
    IF mode \in ForwardModes
    THEN CreatedBlocks = {} /\ DOMAIN reverseBlocks = {} /\ DOMAIN reverseBlockToPrimal = {}
    ELSE /\ Cardinality(CreatedBlocks) = Cardinality(ForwardSet)
         /\ DOMAIN reverseBlocks = ForwardSet
         /\ \A B \in ForwardSet : Len(reverseBlocks[B]) = 1
         /\ \A B, C \in ForwardSet : B # C => reverseBlocks[B][1] # reverseBlocks[C][1]
         /\ CreatedBlocks = {reverseBlocks[B][1] : B \in ForwardSet}

\* A reverse-mode engine built for a function whose block list holds the
\* allocation block and two more blocks has two reverse blocks.
C6_Witness ==
  /\ phase = "ready" /\ ~failed
  /\ mode \in ReverseModes
  /\ inversionAllocs \in OriginalSet
  /\ Cardinality(ForwardSet) = 2
  /\ Cardinality(CreatedBlocks) = 2

\* The forward/reverse correspondence of the two block maps.
Correspondence(rb, rbtp) ==
  /\ \A B \in ForwardSet : B \in DOMAIN rb /\ Len(rb[B]) >= 1
  /\ inversionAllocs \notin DOMAIN rb
  /\ \A B \in DOMAIN rb : \A k \in 1..Len(rb[B]) :
       rb[B][k] \in DOMAIN rbtp /\ rbtp[rb[B][k]] = B

\* C7 (forward/reverse correspondence): in a reverse mode the correspondence
\* holds after construction, and no later engine call changes either map.
CorrespondenceStep ==
  (mode \in ReverseModes /\ phase' = "ready") =>
       /\ Correspondence(reverseBlocks', reverseBlockToPrimal')
       /\ (phase = "ready" =>
             /\ reverseBlocks' = reverseBlocks
             /\ reverseBlockToPrimal' = reverseBlockToPrimal)

C7_Correspondence == [][CorrespondenceStep]_vars

\* A freeCache call emitted a deallocation into a reverse block.
C7_Witness ==
  /\ mode \in ReverseModes /\ FreeMemory
  /\ last.op = "freeCache" /\ last.ok
  /\ Correspondence(reverseBlocks, reverseBlockToPrimal)
  /\ \E R \in DOMAIN reverseBlockToPrimal :
       \E k \in 1..Len(code[R]) : code[R][k].op = "free"

\* ------------------- accumulation on a scalar active Value, in a reverse mode
AccValues == {"x"}

InitAcc ==
  /\ InitEngine
  /\ HostBuild
  /\ NoLoop
  /\ mode \in ReverseModes
  /\ FreeMemory = TRUE
  /\ looseTypeAnalysis = FALSE
  /\ budget = MaxAccOps

NextAcc ==
  \/ Construct
  \/ GetDifferentialOn(AccValues)
  \/ DiffeOn(AccValues)
  \/ AddToDiffeOn(AccValues, {"const", "inst"}, FALSE, {NoMask})
  \/ SetDiffeOn(AccValues, {"const"})

SpecAcc == InitAcc /\ [][NextAcc]_vars

\* Run-time paths through the generated code: the entry allocation block,
\* then up to MaxPath of the blocks the protocol emits into, in any order and
\* with repetition.
Paths ==
  {<<inversionAllocs>> \o p :
     p \in UNION {[1..k -> BuilderBlocks] : k \in 0..MaxPath}}

\* The paths that run every block the protocol emits into exactly once.
OncePaths ==
  {<<inversionAllocs>> \o p :
     p \in {q \in [1..Cardinality(BuilderBlocks) -> BuilderBlocks] :
              \A i, j \in DOMAIN q : i # j => q[i] # q[j]}}

\* C3 (zero-initialization): in a reverse mode the entry block allocates each
\* slot and zero-fills it right after, and on every run-time path a read of
\* a slot that no store has written yet yields the zero of the slot's type,
\* in whichever block the read was emitted.
C3_ZeroInit ==
  (mode \in ReverseModes /\ phase = "ready") =>
    /\ \A v \in DOMAIN differentials :
         \E k \in 1..(Len(code[inversionAllocs]) - 1) :
           /\ code[inversionAllocs][k] = Alloca(differentials[v], TypeOfValue(v))
           /\ code[inversionAllocs][k + 1] = ZeroMemory(differentials[v], TypeOfValue(v))
    /\ \A R \in BuilderBlocks : AllocasIn(code[R]) = {}
    /\ \A pth \in Paths :
         LET st == RunPath(code, pth, RunInit) IN
         \A k \in 1..Len(st.loads) :
           ~st.loads[k].dirty => isZeroVal(st.loads[k].v)

\* The last call is a diffe whose read runs before any store on one path and
\* after a store on another.
C3_Witness ==
  /\ mode \in ReverseModes
  /\ last.op = "diffe" /\ last.ok
  /\ sums[last.val] # 0
  /\ \E pth \in Paths :
       LET st == RunPath(code, pth, RunInit) IN
       \E k \in 1..Len(st.loads) :
         /\ st.loads[k].id = last.ret[1].id
         /\ ~st.loads[k].dirty /\ st.loads[k].v = F(0)
  /\ \E pth \in Paths :
       LET st == RunPath(code, pth, RunInit) IN
       \E k \in 1..Len(st.loads) :
         st.loads[k].id = last.ret[1].id /\ st.loads[k].dirty

\* C4 (accumulation linearity): for a scalar Value that only addToDiffe has
\* written, every run that executes each emitted block once, in any order,
\* leaves the sum of all the increments in the slot, and a diffe emitted last
\* into the block that runs last reads that sum.
C4_Linearity ==
  \A v \in AccValues :
    (mode \in ReverseModes /\ v \in DOMAIN differentials /\ v \notin overwritten) =>
      \A pth \in OncePaths :
        LET st == RunPath(code, pth, RunInit) IN
        /\ st.mem[differentials[v]] = F(sums[v])
        /\ (last.op = "diffe" /\ last.ok /\ last.val = v /\ pth[Len(pth)] = last.B) =>
             st.regs[last.ret[1].id] = F(sums[v])

\* Two different increments were added from two different blocks and a diffe
\* reads their sum.
C4_Witness ==
  /\ mode \in ReverseModes
  /\ "x" \notin overwritten
  /\ sums["x"] = 3
  /\ last.op = "diffe" /\ last.ok
  /\ Cardinality({R \in BuilderBlocks : code[R] # <<>>}) = 2
  /\ \E pth \in OncePaths :
       /\ pth[Len(pth)] = last.B
       /\ RunPath(code, pth, RunInit).regs[last.ret[1].id] = F(3)

\* ------------------------------ accumulation on aggregates, in a reverse mode
AggValues == {"s", "arr", "parr", "nest"}

InitAgg ==
  /\ InitEngineOn({2}, {TRUE}, Empty)
  /\ HostBuild
  /\ NoLoop
  /\ mode \in ReverseModes
  /\ FreeMemory = TRUE
  /\ looseTypeAnalysis = FALSE
  /\ budget = MaxAggOps

NextAgg ==
  \/ Construct
  \/ AddToDiffeOn(AggValues, {"const"}, TRUE, {NoMask})
  \/ SetDiffeOn(AggValues, {"inst"})

SpecAgg == InitAgg /\ [][NextAgg]_vars

\* What the claim expects of an accumulation into a value of type ty: floats
\* are added, pointers keep their value, structs go field by field, arrays
\* element by element unless their elements are pointers.
RECURSIVE ExpectedAdd(_, _, _)
ExpectedAdd(old, inc, ty) ==
  CASE isPointerTy(ty) -> old
    [] ty.k = "struct" ->
         [i \in 1..NumElements(ty) |-> ExpectedAdd(old[i], inc[i], ElementType(ty, i))]
    [] ty.k = "array" ->
         IF isPointerTy(ty.elt) THEN old
         ELSE [i \in 1..NumElements(ty) |-> ExpectedAdd(old[i], inc[i], ty.elt)]
    [] OTHER -> AddVal(old, inc)

\* The paths that end in block R and run it only there.
PathsEndingIn(R) ==
  {<<inversionAllocs>> \o q \o <<R>> :
     q \in UNION {[1..k -> BuilderBlocks \ {R}] : k \in 0..(MaxPath - 1)}}

\* C5 (structural pass-through): an unmasked addToDiffe whose target is of
\* struct or array type returns, and on every path to its block the slot ends
\* with the target's non-pointer leaves increased by the increment's and its
\* pointer fields and arrays of pointers as they were; no other slot changes.
PassThroughStep ==
  (/\ last'.op = "addToDiffe" /\ budget' < budget
   /\ isAggregateTy(TypeAt(TypeOfValue(last'.val), last'.idxs))) =>
    /\ last'.ok
    /\ LET val == last'.val
           ty == TypeAt(TypeOfValue(val), last'.idxs)
           slot == differentials'[val]
       IN \A pth \in PathsEndingIn(last'.B) :
            LET before == RunPath(code, pth, RunInit).mem
                after == RunPath(code', pth, RunInit).mem
                b0 == IF slot \in DOMAIN before THEN before[slot]
                      ELSE ZeroOf(TypeOfValue(val))
            IN /\ after[slot] =
                    WriteAt(b0, last'.idxs,
                            ExpectedAdd(ReadAt(b0, last'.idxs),
                                        Eval(last'.dif, Empty), ty))
               /\ \A o \in DOMAIN before \ {slot} : after[o] = before[o]

C5_PassThrough == [][PassThroughStep]_vars

\* The spec's example: {1.0, null, 2.0} is added to a struct slot that held
\* {2.0, p, 1.0} with p not null; the slot ends as {3.0, p, 3.0}.
C5_Witness ==
  /\ last.op = "addToDiffe" /\ last.ok /\ last.val = "s"
  /\ last.dif = Const(TypeOfValue("s"), <<F(1), P(0), F(2)>>)
  /\ \E pth \in PathsEndingIn(last.B) :
       RunPath(code, pth, RunInit).mem[differentials["s"]] = <<F(3), P(1), F(3)>>

\* ---------------------------------- accumulation through a shadow pointer
PtrValues == {"p", "pa", "pb"}
Archs == {"x86_64", "nvptx", "nvptx64", "amdgcn"}
\* The LLVM releases the engine is built against.
LLVMVersions == {7, 8, 9, 10, 11, 12, 13}

InitPtr ==
  /\ InitEngineOn({1}, {TRUE}, [v \in PtrValues |-> ShadowOf(v)])
  /\ NoLoop
  /\ mode \in Modes
  /\ FreeMemory = TRUE
  /\ looseTypeAnalysis = FALSE
  /\ AtomicAdd \in BOOLEAN
  /\ Arch \in Archs
  /\ LLVM_VERSION_MAJOR \in LLVMVersions
  /\ backwardsOnlyShadows = {"mb"}
  /\ budget = MaxPtrOps

NextPtr ==
  \/ Construct
  \/ AddToInvertedPtrDiffeOn(PtrValues, PtrCases)

SpecPtr == InitPtr /\ [][NextPtr]_vars

\* The instructions a step appended to block R.
Emitted(R) == SubSeq(code'[R], Len(code[R]) + 1, Len(code'[R]))
AtomicsIn(instrs) == {k \in 1..Len(instrs) : instrs[k].op = "atomicrmw"}
\* The plain or masked accesses to buffer b.
AccessesIn(instrs, b) ==
  {k \in 1..Len(instrs) :
     /\ instrs[k].op \in {"load", "store", "masked_load", "masked_store"}
     /\ instrs[k].ptr.slot = b}
\* The targets the code never accumulates into atomically.
ExemptTarget(obj) ==
  \/ obj \in backwardsOnlyShadows
  \/ isAllocaInst(obj) /\ Arch \in {"nvptx", "nvptx64", "amdgcn"}

\* C8 (atomic selection) as claimed: a call that returns emits no atomic
\* read-modify-write for a backwards-only shadow, and with AtomicAdd on it
\* emits one for every other target.
AtomicSelectionOriginalStep ==
  (last'.op = "addToInvertedPtrDiffe" /\ budget' < budget /\ last'.ok) =>
    LET obj == getUnderlyingObject(last'.val)
        new == Emitted(last'.B)
    IN /\ obj \in backwardsOnlyShadows => AtomicsIn(new) = {}
       /\ (AtomicAdd /\ obj \notin backwardsOnlyShadows) => AtomicsIn(new) # {}

C8_Original == [][AtomicSelectionOriginalStep]_vars

\* C8 as amended: no atomic read-modify-write is emitted when AtomicAdd is
\* off, for a backwards-only shadow, or for an alloca on nvptx, nvptx64 or
\* amdgcn; with AtomicAdd on, a call for any other target that returns is
\* unmasked, built against LLVM 9 or later, and accumulates only through
\* atomic read-modify-writes; one that aborts emitted no accumulation.
AtomicSelectionStep ==
  (last'.op = "addToInvertedPtrDiffe" /\ budget' < budget) =>
    LET obj == getUnderlyingObject(last'.val)
        new == Emitted(last'.B)
        buf == ShadowBuf(last'.val)
    IN /\ (~AtomicAdd \/ ExemptTarget(obj)) => AtomicsIn(new) = {}
       /\ (AtomicAdd /\ ~ExemptTarget(obj) /\ last'.ok) =>
            /\ AtomicsIn(new) # {}
            /\ AccessesIn(new, buf) = {}
            /\ last'.mask = NoMask
            /\ LLVM_VERSION_MAJOR >= 9
       /\ (AtomicAdd /\ ~ExemptTarget(obj) /\ ~last'.ok) =>
            AtomicsIn(new) = {} /\ AccessesIn(new, buf) = {}

C8_AtomicSelection == [][AtomicSelectionStep]_vars

\* With AtomicAdd on, on a GPU target, a vector is accumulated into the
\* shadow of a pointer argument by four atomic read-modify-writes.
C8_Witness ==
  /\ AtomicAdd /\ Arch = "nvptx64"
  /\ last.op = "addToInvertedPtrDiffe" /\ last.ok /\ last.val = "p"
  /\ Cardinality(AtomicsIn(code[last.B])) = 4

\* Run-time contents of a shadow buffer of four floats before the generated
\* code runs.
Buffers == {<<F(0), F(0), F(0), F(0)>>, <<F(1), F(2), F(3), F(4)>>}
ShadowMem(buf0) == [b \in {ShadowBuf(v) : v \in PtrValues} |-> buf0]
RunFrom(mem0) == [RunInit EXCEPT !.mem = mem0]

\* C9 (masked shadow-pointer accumulation): a masked call that is not atomic
\* returns, and running the block leaves every lane whose mask bit is set at
\* old + increment and every other lane, and every other buffer, as it was.
MaskedAccumulationStep ==
  (/\ last'.op = "addToInvertedPtrDiffe" /\ budget' < budget
   /\ last'.mask # NoMask
   /\ (~AtomicAdd \/ ExemptTarget(getUnderlyingObject(last'.val)))) =>
    /\ last'.ok
    /\ \A buf0 \in Buffers : \A pth \in PathsEndingIn(last'.B) :
         LET before == RunPath(code, pth, RunFrom(ShadowMem(buf0))).mem
             after == RunPath(code', pth, RunFrom(ShadowMem(buf0))).mem
             b == ShadowBuf(last'.val)
             inc == Eval(last'.dif, Empty)
         IN /\ after[b] = [i \in 1..4 |->
                             IF last'.mask[i] THEN AddVal(before[b][i], inc[i])
                             ELSE before[b][i]]
            /\ \A o \in DOMAIN before \ {b} : after[o] = before[o]

C9_MaskedAccumulation == [][MaskedAccumulationStep]_vars

\* The spec's example: mask {true, false, true, false}, a zero buffer and the
\* increment {1, 1, 1, 1} give {1, 0, 1, 0}.
C9_Witness ==
  /\ last.op = "addToInvertedPtrDiffe" /\ last.ok
  /\ last.mask = <<TRUE, FALSE, TRUE, FALSE>>
  /\ last.dif = Const(V4, <<F(1), F(1), F(1), F(1)>>)
  /\ Len(code[last.B]) = 2
  /\ RunPath(code, <<inversionAllocs, last.B>>,
             RunFrom(ShadowMem(<<F(0), F(0), F(0), F(0)>>))).mem[ShadowBuf(last.val)]
       = <<F(1), F(0), F(1), F(0)>>

\* ------------------------------------- the gradient of compute_loops, end to end
\* The loop of the test runs 100 times.
LoopTrip == 100
\* The blocks of compute_loops: entry, loop header (the phi of the running sum
\* and the exit test), loop body, exit (the store to *ret).
LoopEntry == 1
LoopHeader == 2
LoopBody == 3
LoopExit == 4

LoopPointers == {"a", "b", "ret"}
ZeroC(ty) == Const(ty, ZeroOf(ty))
RevBlock(E, B) == E.reverseBlocks[B][Len(E.reverseBlocks[B])]

\* The adjoint generator (outside the engine) visits the instructions of
\* compute_loops last to first.  For each it reads the instruction's
\* derivative, resets it to zero and adds it to the derivatives of the
\* operands; a load adds it through the shadow of its pointer.
GenProgram ==
  << [kind |-> "store", v |-> "tr", o |-> "ret", B |-> LoopExit],
     [kind |-> "cast", v |-> "tr", o |-> "sum", B |-> LoopExit],
     [kind |-> "phi", v |-> "sum", o |-> "sumnext", B |-> LoopHeader],
     [kind |-> "fadd", v |-> "sumnext", o |-> "sum", B |-> LoopBody],
     [kind |-> "cast", v |-> "ext", o |-> "add", B |-> LoopBody],
     [kind |-> "fadd", v |-> "add", o |-> "la", B |-> LoopBody],
     [kind |-> "load", v |-> "lb", o |-> "b", B |-> LoopBody],
     [kind |-> "load", v |-> "la", o |-> "a", B |-> LoopBody] >>
\* The second operand of the two additions.
OtherOperand(v) == IF v = "sumnext" THEN "ext" ELSE "lb"

\* diffe(v) followed by setDiffe(v, 0); yields the derivative read.
consume(E, v, B) ==
  LET E1 == diffe(E, v, B) IN
  IF E1.failed THEN E1
  ELSE [setDiffe(E1, v, ZeroC(TypeOfValue(v)), B) EXCEPT !.ret = E1.ret]

accumulate(E, v, dif, B) ==
  IF E.failed THEN E
  ELSE addToDiffe(E, v, dif, B, TypeOfValue(v), <<>>, NoMask)

\* store v, ptr: the shadow of ptr's target is read and zeroed, and what was
\* read is added to the derivative of v.
visitStore(E, v, ptr, B) ==
  LET ty == TypeOfValue(v)
      E0 == invertPointerM(E, ptr, B)
      sp == BufAddr(PtrSlot(E0.ret), 0, ty)
      id == E0.nextId
      E1 == [Emit(Emit(E0, B, Load(id, ty, sp)), B, Store(ZeroC(ty), sp))
               EXCEPT !.nextId = id + 1]
  IN accumulate(E1, v, Ld(ty, id), B)

visitCast(E, v, op, B) ==
  LET E1 == consume(E, v, B) IN
  accumulate(E1, op, FPCastE(E1.ret, TypeOfValue(op)), B)

\* The phi of the loop header: its derivative flows to the value coming in
\* over the back edge, in the reverse of the block the edge leaves.
visitPHI(E, v, incoming, B, latch) ==
  LET E1 == consume(E, v, B) IN accumulate(E1, incoming, E1.ret, latch)

visitFAdd(E, v, l, r, B) ==
  LET E1 == consume(E, v, B)
      E2 == accumulate(E1, l, E1.ret, B)
  IN accumulate(E2, r, E1.ret, B)

visitLoad(E, v, ptr, B) ==
  LET ty == TypeOfValue(v)
      E1 == consume(E, v, B)
  IN IF E1.failed THEN E1
     ELSE addToInvertedPtrDiffe(E1, [ty |-> ty], ty, 0, TypeBytes(ty), ptr,
                                E1.ret, B, 4, NoMask)

Generating == Ready /\ loop.run = "gen" /\ loop.gen <= Len(GenProgram)
Step == GenProgram[loop.gen]
Generated(E, op) ==
  /\ Commit(E, [Call(op, Step.v) EXCEPT !.B = RevBlock(Eng, Step.B)])
  /\ loop' = [loop EXCEPT !.gen = @ + 1,
                          !.run = IF loop.gen = Len(GenProgram) THEN "allocs" ELSE "gen"]
  /\ UNCHANGED <<phase, budget, accessed, requested, sums, overwritten, threads>>

VisitStore ==
  /\ Generating /\ Step.kind = "store"
  /\ Generated(visitStore(Eng, Step.v, Step.o, RevBlock(Eng, Step.B)), "visitStore")

VisitCast ==
  /\ Generating /\ Step.kind = "cast"
  /\ Generated(visitCast(Eng, Step.v, Step.o, RevBlock(Eng, Step.B)), "visitCast")

VisitPHI ==
  /\ Generating /\ Step.kind = "phi"
  /\ Generated(visitPHI(Eng, Step.v, Step.o, RevBlock(Eng, Step.B),
                        RevBlock(Eng, LoopBody)), "visitPHI")

VisitFAdd ==
  /\ Generating /\ Step.kind = "fadd"
  /\ Generated(visitFAdd(Eng, Step.v, Step.o, OtherOperand(Step.v),
                         RevBlock(Eng, Step.B)), "visitFAdd")

VisitLoad ==
  /\ Generating /\ Step.kind = "load"
  /\ Generated(visitLoad(Eng, Step.v, Step.o, RevBlock(Eng, Step.B)), "visitLoad")

\* The generated reverse pass runs: the entry allocations, the reverse of the
\* exit, the reverse of the header, then for each forward iteration the
\* reverse of the body and of the header, then the reverse of the entry.
Ran(B, next) ==
  /\ ~failed
  /\ loop' = [loop EXCEPT !.st = RunBlock(code[B], @), !.run = next]
  /\ UNCHANGED <<phase, failed, mode, originalBlocks, reverseBlocks,
                 reverseBlockToPrimal, differentials, invertedPointers, code,
                 scopeFrees, FreeMemory, looseTypeAnalysis, AtomicAdd, Arch,
                 LLVM_VERSION_MAJOR, backwardsOnlyShadows, nextId, budget,
                 last, accessed, requested, sums, overwritten, threads>>

RunAllocs == loop.run = "allocs" /\ Ran(inversionAllocs, "exit")
RunExit == loop.run = "exit" /\ Ran(RevBlock(Eng, LoopExit), "header")
RunHeader ==
  /\ loop.run = "header"
  /\ Ran(RevBlock(Eng, LoopHeader), IF loop.iter < loop.K THEN "body" ELSE "entry")
RunBody ==
  /\ loop.run = "body"
  /\ ~failed
  /\ loop' = [loop EXCEPT !.st = RunBlock(code[RevBlock(Eng, LoopBody)], @),
                          !.run = "header", !.iter = @ + 1]
  /\ UNCHANGED <<phase, failed, mode, originalBlocks, reverseBlocks,
                 reverseBlockToPrimal, differentials, invertedPointers, code,
                 scopeFrees, FreeMemory, looseTypeAnalysis, AtomicAdd, Arch,
                 LLVM_VERSION_MAJOR, backwardsOnlyShadows, nextId, budget,
                 last, accessed, requested, sums, overwritten, threads>>
RunEntry == loop.run = "entry" /\ Ran(RevBlock(Eng, LoopEntry), "done")

\* main: da = db = 0 and dret = 1.0 when the gradient is called.
SeedMem ==
  (ShadowBuf("a") :> <<F(0)>>) @@ (ShadowBuf("b") :> <<F(0)>>)
    @@ (ShadowBuf("ret") :> <<F(1)>>)

InitLoop ==
  /\ InitEngineOn({LoopExit}, {TRUE}, [v \in LoopPointers |-> ShadowOf(v)])
  /\ mode \in ReverseModes
  /\ FreeMemory = TRUE
  /\ looseTypeAnalysis = FALSE
  /\ AtomicAdd \in BOOLEAN
  /\ Arch = "x86_64"
  /\ LLVM_VERSION_MAJOR = 13
  /\ backwardsOnlyShadows = {}
  /\ budget = 0
  /\ \E K \in (0..MaxTrip) \cup {LoopTrip} :
       loop = [gen |-> 1, run |-> "gen", K |-> K, iter |-> 0, st |-> RunFrom(SeedMem)]

NextLoop ==
  \/ Construct
  \/ VisitStore \/ VisitCast \/ VisitPHI \/ VisitFAdd \/ VisitLoad
  \/ RunAllocs \/ RunExit \/ RunHeader \/ RunBody \/ RunEntry

SpecLoop == InitLoop /\ [][NextLoop]_vars

\* C10 (end-to-end loop gradient): when the generated reverse pass of the
\* K-iteration loop has run, seeded with dret = 1 and da = db = 0, da and db
\* are both K; while it runs they are the number of iterations reversed so
\* far, one accumulation per iteration.
C10_LoopGradient ==
  /\ loop.run = "done" =>
       /\ loop.st.mem[ShadowBuf("a")] = <<F(loop.K)>>
       /\ loop.st.mem[ShadowBuf("b")] = <<F(loop.K)>>
  /\ loop.run \in {"header", "body", "entry"} =>
       /\ loop.st.mem[ShadowBuf("a")] = <<F(loop.iter)>>
       /\ loop.st.mem[ShadowBuf("b")] = <<F(loop.iter)>>

\* The test's run: 100 iterations leave da = db = 100.
C10_Witness ==
  /\ loop.run = "done" /\ loop.K = LoopTrip /\ ~failed
  /\ loop.st.mem[ShadowBuf("a")] = <<F(100)>>
  /\ loop.st.mem[ShadowBuf("b")] = <<F(100)>>

\* ------------------------------- contract violations, in every derivative mode
Mask4 == <<TRUE, FALSE, TRUE, FALSE>>

InitErr ==
  /\ InitEngineOn({1}, {TRUE}, [v \in {"p"} |-> ShadowOf(v)])
  /\ NoLoop
  /\ mode \in Modes
  /\ FreeMemory = TRUE
  /\ looseTypeAnalysis \in BOOLEAN
  /\ AtomicAdd \in BOOLEAN
  /\ Arch = "x86_64"
  /\ LLVM_VERSION_MAJOR = 13
  /\ backwardsOnlyShadows = {}
  /\ budget = MaxErrOps

\* A mask goes with a vector target, or with an aggregate of vectors.  The
\* derivative of a void-typed Value is asked for in the reverse modes only
\* (what the shadow-pointer lookup makes of one is not part of the model).
NextErr ==
  \/ Construct
  \/ DiffeOn({"x", "p", "c"})
  \/ (mode \in ReverseModes /\ DiffeOn({"vd"}))
  \/ AddToDiffeOn({"x", "p", "c", "s", "k", "si", "vec", "av", "sv"}, {"const"}, TRUE,
                  {NoMask})
  \/ AddToDiffeOn({"vec", "av", "sv"}, {"const"}, TRUE, {Mask4})
  \/ SetDiffeOn({"x", "c"}, {"const"})
  \/ AddToInvertedPtrDiffeOn({"p"}, PtrCases)

SpecErr == InitErr /\ [][NextErr]_vars

\* C11 (diffe failures) as claimed: in every mode diffe aborts when its Value
\* is constant, void-typed or pointer-typed, and returns otherwise.
C11_Original ==
  last.op = "diffe" =>
    LET ty == TypeOfValue(last.val) IN
    (isConstantValue(last.val) \/ isVoidTy(ty) \/ isPointerTy(ty)) <=> ~last.ok

\* C11 as amended: diffe aborts on a constant Value in every mode; in the
\* reverse modes it also aborts on a void-typed or pointer-typed Value and
\* otherwise returns a load of the Value's slot; in the forward modes it makes
\* no check of the type and returns the shadow-pointer association's value,
\* also for a pointer-typed Value, without creating a slot.
C11_DiffeFailure ==
  last.op = "diffe" =>
    LET v == last.val
        ty == TypeOfValue(v)
        instrs == code[last.B]
    IN /\ isConstantValue(v) => ~last.ok
       /\ (mode \in ReverseModes /\ (isVoidTy(ty) \/ isPointerTy(ty))) => ~last.ok
       /\ (mode \in ReverseModes /\ ~isConstantValue(v) /\ ~isVoidTy(ty) /\ ~isPointerTy(ty)) =>
            /\ last.ok
            /\ v \in DOMAIN differentials
            /\ \E k \in 1..Len(instrs) :
                 /\ instrs[k].op = "load"
                 /\ instrs[k] = Load(instrs[k].id, ty, Addr(differentials[v], <<>>))
                 /\ last.ret = <<Ld(ty, instrs[k].id)>>
       /\ (mode \in ForwardModes /\ ~isConstantValue(v) /\ ~isVoidTy(ty)) =>
            /\ last.ok
            /\ v \in DOMAIN invertedPointers
            /\ last.ret = <<invertedPointers[v]>>
            /\ v \notin DOMAIN differentials

\* A forward-mode diffe of a pointer-typed Value returned its shadow pointer.
C11_Witness ==
  /\ mode \in ForwardModes
  /\ last.op = "diffe" /\ last.ok /\ last.val = "p"
  /\ last.ret = <<ShadowOf("p")>>

\* The kinds of contract violation, told from the call and the engine's
\* configuration.  The type addToDiffe addresses:
Target(call) == TypeAt(TypeOfValue(call.val), call.idxs)
\* addToDiffe got past its assertions on the mode and on the Value.
OnScalarPath(call) ==
  /\ call.op = "addToDiffe" /\ mode \in ReverseModes
  /\ ~isConstantValue(call.val) /\ ~isPointerTy(TypeOfValue(call.val))
\* The derivative of a constant; a pointer through the scalar path.
EarlyViolation(call) ==
  \/ call.op \in ProtocolOps /\ isConstantValue(call.val)
  \/ /\ call.op \in {"diffe", "addToDiffe"} /\ mode \in ReverseModes
     /\ isPointerTy(TypeOfValue(call.val))
\* A masked struct or array accumulation, a shape the protocol does not
\* recognise, integer storage with no float type to add in.
LateViolation(call) ==
  /\ OnScalarPath(call)
  /\ LET T == Target(call) IN
     \/ call.mask # NoMask /\ T.k \in {"struct", "array"}
     \/ ~isIntOrIntVectorTy(T) /\ ~isFPOrFPVectorTy(T) /\ T.k \notin {"struct", "array"}
     \/ isIntOrIntVectorTy(T) /\ ~looseTypeAnalysis
\* One of these met at an element, inside the recursion over a struct or array.
NestedViolation(call) ==
  /\ OnScalarPath(call) /\ call.mask = NoMask
  /\ Target(call).k \in {"struct", "array"}
  /\ ~call.ok
MaskedAtomicViolation(call) ==
  /\ call.op = "addToInvertedPtrDiffe" /\ call.mask # NoMask
  /\ useAtomic(getUnderlyingObject(call.val))

\* C12 (no partial output) as claimed: a call that is a contract violation
\* aborts, and has created no slot and emitted no instruction.
NoPartialOutputOriginalStep ==
  (budget' < budget
     /\ (EarlyViolation(last') \/ LateViolation(last') \/ NestedViolation(last')
           \/ MaskedAtomicViolation(last'))) =>
    /\ ~last'.ok
    /\ differentials' = differentials
    /\ code' = code

C12_Original == [][NoPartialOutputOriginalStep]_vars

\* What getDifferential put into the entry block for val in this step.
SlotCreated(val) ==
  /\ val \in DOMAIN differentials'
  /\ \A w \in DOMAIN differentials : differentials'[w] = differentials[w]
  /\ DOMAIN differentials' = DOMAIN differentials \cup {val}
  /\ Emitted(inversionAllocs) =
       IF val \in DOMAIN differentials THEN <<>>
       ELSE <<Alloca(differentials'[val], TypeOfValue(val)),
              ZeroMemory(differentials'[val], TypeOfValue(val))>>

\* C12 as amended: every contract violation aborts the call, and what had
\* been created and emitted before the call stays as it was.  The derivative
\* of a constant and a pointer through the scalar path abort before the call
\* has created a slot or emitted an instruction.  A masked struct or array, an
\* unrecognised shape and integer storage with no float type abort after the
\* call has created the Value's slot (when it had none) and emitted the load
\* of the addressed contents, and before any store; met inside the recursion
\* over a struct or array they abort after the accumulations of the elements
\* before.  A masked atomic accumulation aborts before any access to the
\* shadow memory is emitted.
NoPartialOutputStep ==
  budget' < budget =>
    LET call == last'
        new == Emitted(call.B)
    IN /\ (EarlyViolation(call) \/ LateViolation(call) \/ MaskedAtomicViolation(call)) =>
            ~call.ok
       /\ ~call.ok =>
            /\ \A w \in DOMAIN differentials :
                 w \in DOMAIN differentials' /\ differentials'[w] = differentials[w]
            /\ \A R \in DOMAIN code :
                 SubSeq(code'[R], 1, Len(code[R])) = code[R]
            /\ invertedPointers' = invertedPointers
       /\ EarlyViolation(call) =>
            differentials' = differentials /\ code' = code /\ nextId' = nextId
       /\ LateViolation(call) =>
            /\ SlotCreated(call.val)
            /\ Len(new) = 1
            /\ new[1] = Load(new[1].id, Target(call),
                             Addr(differentials'[call.val], call.idxs))
       /\ NestedViolation(call) =>
            /\ SlotCreated(call.val)
            /\ new[Len(new)].op = "load"
       /\ MaskedAtomicViolation(call) =>
            /\ differentials' = differentials
            /\ AtomicsIn(new) = {}
            /\ AccessesIn(new, ShadowBuf(call.val)) = {}

C12_NoPartialOutput == [][NoPartialOutputStep]_vars

\* A masked accumulation into an array aborted after it had created the
\* array's slot and emitted the load of the array.
C12_Witness ==
  /\ last.op = "addToDiffe" /\ ~last.ok
  /\ last.val = "av" /\ last.idxs = <<>> /\ last.mask = Mask4
  /\ "av" \in DOMAIN differentials
  /\ Len(code[inversionAllocs]) = 2
  /\ Len(code[last.B]) = 1 /\ code[last.B][1].op = "load"

\* The memory a call accumulates into: the Value's slot, or the buffer the
\* shadow pointer points to.
TargetSlots(call) ==
  IF call.op = "addToDiffe"
  THEN {differentials'[v] : v \in {call.val} \cap DOMAIN differentials'}
  ELSE {ShadowBuf(call.val)}
StoresIn(instrs, kinds, slots) ==
  {k \in 1..Len(instrs) : instrs[k].op \in kinds /\ instrs[k].ptr.slot \in slots}
MaskedCall(call) ==
  call.op \in {"addToDiffe", "addToInvertedPtrDiffe"} /\ call.mask # NoMask

\* C15 (a mask is never dropped) as claimed: a call with a mask aborts exactly
\* when its target is a struct or an array (addToDiffe) or the atomic path is
\* selected (addToInvertedPtrDiffe), and otherwise accumulates through a
\* masked store.
MaskOriginalStep ==
  (budget' < budget /\ MaskedCall(last')) =>
    LET call == last'
        new == Emitted(call.B)
        slots == TargetSlots(call)
    IN /\ ~call.ok <=>
            IF call.op = "addToDiffe" THEN Target(call).k \in {"struct", "array"}
            ELSE useAtomic(getUnderlyingObject(call.val))
       /\ call.ok => StoresIn(new, {"masked_store"}, slots) # {}
       /\ StoresIn(new, {"store", "atomicrmw"}, slots) = {}

MaskStep ==
  (budget' < budget /\ MaskedCall(last')) =>
    LET call == last'
        new == Emitted(call.B)
        slots == TargetSlots(call)
    IN /\ (call.op = "addToDiffe" /\ mode \in ReverseModes
             /\ ~isPointerTy(TypeOfValue(call.val))
             /\ Target(call).k \in {"struct", "array"}) => ~call.ok
       /\ (call.op = "addToInvertedPtrDiffe"
             /\ useAtomic(getUnderlyingObject(call.val))) => ~call.ok
       /\ call.ok =>
            /\ Cardinality(StoresIn(new, {"masked_store"}, slots)) = 1
            /\ \A k \in StoresIn(new, {"masked_store"}, slots) : new[k].mask = call.mask
       /\ ~call.ok => StoresIn(new, {"masked_store"}, slots) = {}
       /\ StoresIn(new, {"store", "atomicrmw"}, slots) = {}

MaskedAddStep ==
  (budget' < budget /\ MaskedCall(last') /\ OnScalarPath(last')
     /\ Target(last').k \notin {"struct", "array", "ptr"}) =>
    LET call == last'
        slot == differentials'[call.val]
    IN /\ call.ok
       /\ \A pth \in PathsEndingIn(call.B) :
            LET before == RunPath(code, pth, RunInit)
                after == RunPath(code', pth, RunInit)
                b0 == IF slot \in DOMAIN before.mem THEN before.mem[slot]
                      ELSE ZeroOf(TypeOfValue(call.val))
                old == ReadAt(b0, call.idxs)
            IN /\ \A o \in DOMAIN before.mem \ {slot} : after.mem[o] = before.mem[o]
               /\ after.mem[slot] =
                    WriteAt(b0, call.idxs,
                            MaskedWrite(old, AddVal(old, Eval(call.dif, Empty)), call.mask))

C16_MaskedAccumulation == [][MaskedAddStep]_vars

\* --------------------------------- replacing a slot, in a reverse mode
SetValues == {"x", "arr"}

InitSet ==
  /\ InitEngineOn({1}, {TRUE}, Empty)
  /\ HostBuild
  /\ NoLoop
  /\ mode \in ReverseModes
  /\ FreeMemory = TRUE
  /\ looseTypeAnalysis = FALSE
  /\ budget = MaxSetOps

NextSet ==
  \/ Construct
  \/ DiffeOn(SetValues)
  \/ AddToDiffeOn(SetValues, {"const"}, TRUE, {NoMask})
  \/ SetDiffeOn(SetValues, {"inst", "zero"})

SpecSet == InitSet /\ [][NextSet]_vars

\* C13 (setDiffe replaces the slot): in a reverse mode, on every run up to
\* the end of the block a call emitted into: after setDiffe(V, x) the slot of
\* V holds x whatever it held before, and every other slot holds what it
\* held; a diffe reads what the slot holds; an addToDiffe leaves the addressed
\* contents increased by its increment.  (So setDiffe(V, 0) followed by
\* addToDiffe(V, d) leaves d.)
SetDiffeStep ==
  (budget' < budget /\ last'.val \in DOMAIN differentials') =>
    LET call == last'
        slot == differentials'[call.val]
        ty == TypeOfValue(call.val)
    IN /\ call.ok
       /\ \A pth \in PathsEndingIn(call.B) :
            LET before == RunPath(code, pth, RunInit)
                after == RunPath(code', pth, RunInit)
                b0 == IF slot \in DOMAIN before.mem THEN before.mem[slot] ELSE ZeroOf(ty)
            IN /\ \A o \in DOMAIN before.mem \ {slot} : after.mem[o] = before.mem[o]
               /\ call.op = "setDiffe" => after.mem[slot] = Eval(call.dif, Empty)
               /\ call.op = "diffe" =>
                    /\ after.mem[slot] = b0
                    /\ after.regs[call.ret[1].id] = b0
               /\ call.op = "addToDiffe" =>
                    after.mem[slot] =
                      WriteAt(b0, call.idxs,
                              ExpectedAdd(ReadAt(b0, call.idxs), Eval(call.dif, Empty),
                                          Target(call)))

C13_SetDiffeReplaces == [][SetDiffeStep]_vars

\* 1.0 was added to the slot of x, the slot was then set to zero and 1.0 was
\* added again: the slot holds 1.0.
C13_Witness ==
  /\ last.op = "addToDiffe" /\ last.ok /\ last.val = "x"
  /\ Len(code[last.B]) = 5
  /\ code[last.B][2].op = "store"
  /\ code[last.B][3] = Store(Const(FloatTy, F(0)), Addr(differentials["x"], <<>>))
  /\ code[last.B][5].op = "store"
  /\ RunPath(code, <<inversionAllocs, last.B>>, RunInit).mem[differentials["x"]] = F(1)

\* ------------------------------ placeholders, in the forward modes
FwdValues == {"x", "tr"}

InitFwd ==
  /\ InitEngineOn({1}, {TRUE}, [v \in {"p"} |-> ShadowOf(v)])
  /\ HostBuild
  /\ NoLoop
  /\ mode \in ForwardModes
  /\ FreeMemory = TRUE
  /\ looseTypeAnalysis = FALSE
  /\ budget = MaxFwdOps

NextFwd ==
  \/ Construct
  \/ DiffeOn(FwdValues)
  \/ AccumulateDiffeOn(FwdValues, {"p"})
  \/ SetDiffeOn(FwdValues, {"inst", "phi"})

SpecFwd == InitFwd /\ [][NextFwd]_vars

\* The placeholders are the PHI nodes the shadow-pointer lookup reserved.
isPlaceholder(x) == x.e = "phi" /\ x.id > 0
\* Instruction ins, or value x, uses value a.
UsesIn(ins, a) == ReplaceInInstr(ins, a, Const(VoidTy, UndefLeaf)) # ins
UsesInValue(x, a) == ReplaceInValue(x, a, Const(VoidTy, UndefLeaf)) # x
\* What a block leaves in memory when the placeholder ph stands for value v.
RunWith(instrs, ph, v) ==
  RunBlock(instrs, [RunFrom(ShadowMem(<<F(1)>>)) EXCEPT !.regs = (ph.id :> v)]).mem

\* What C14 says of a forward-mode setDiffe(V, newValue) whose Value has a
\* pending `ph` in the association: the association maps V to newValue, the
\* placeholder is used nowhere and its instruction is gone, every block
\* computes what it computed with the placeholder standing for newValue, and
\* no slot was created.
Resolved(call, ph) ==
  /\ call.ok
  /\ invertedPointers'[call.val] = call.dif
  /\ \A w \in DOMAIN invertedPointers' : ~UsesInValue(invertedPointers'[w], ph)
  /\ \A R \in DOMAIN code' : \A k \in 1..Len(code'[R]) :
       /\ ~UsesIn(code'[R][k], ph)
       /\ ~(code'[R][k].op = "phi" /\ code'[R][k].id = ph.id)
  /\ \A R \in DOMAIN code :
       RunWith(code'[R], ph, UndefLeaf) = RunWith(code[R], ph, Eval(call.dif, Empty))
  /\ differentials' = differentials
Untouched ==
  /\ code' = code /\ invertedPointers' = invertedPointers
  /\ differentials' = differentials
\* A diffe of a Value that has an association returns the associated value.
ReturnsAssociated(call) ==
  (call.op = "diffe" /\ call.val \in DOMAIN invertedPointers) =>
    /\ call.ok /\ call.ret = <<invertedPointers[call.val]>>
    /\ Untouched

\* C14 (forward-mode setDiffe) as claimed: the call resolves a pending
\* placeholder and aborts when the Value has no association or its associated
\* value is not a placeholder.
PlaceholderOriginalStep ==
  (budget' < budget /\ mode \in ForwardModes) =>
    /\ ReturnsAssociated(last')
    /\ last'.op = "setDiffe" =>
         IF last'.val \in DOMAIN invertedPointers
              /\ isPlaceholder(invertedPointers[last'.val])
         THEN Resolved(last', invertedPointers[last'.val])
         ELSE ~last'.ok /\ Untouched

C14_Original == [][PlaceholderOriginalStep]_vars

\* C14 as amended: the call aborts when the Value has no association, its
\* associated value is not a PHI node, or newValue is the associated value
\* itself; every other PHI node is taken for a pending placeholder and
\* resolved, one that was set by an earlier setDiffe included.
PlaceholderStep ==
  (budget' < budget /\ mode \in ForwardModes) =>
    /\ ReturnsAssociated(last')
    /\ last'.op = "setDiffe" =>
         IF last'.val \in DOMAIN invertedPointers
              /\ invertedPointers[last'.val].e = "phi"
              /\ invertedPointers[last'.val] # last'.dif
         THEN Resolved(last', invertedPointers[last'.val])
         ELSE ~last'.ok /\ Untouched

C14_PlaceholderResolved == [][PlaceholderStep]_vars

\* The derivative of x was added into a shadow through a placeholder, the
\* placeholder was resolved to 2.0, and a diffe of x returns that value; the
\* code adds 2.0 to the shadow.
C14_Witness ==
  /\ mode \in ForwardModes
  /\ last.op = "diffe" /\ last.ok /\ last.val = "x"
  /\ last.ret = <<Inst(FloatTy, F(2))>>
  /\ DOMAIN differentials = {}
  /\ \E k \in 1..Len(code[last.B]) :
       /\ code[last.B][k].op = "store"
       /\ code[last.B][k].val.r = Inst(FloatTy, F(2))
  /\ RunBlock(code[last.B], RunFrom(ShadowMem(<<F(1)>>))).mem[ShadowBuf("p")] = <<F(3)>>

\* ------------------------------------------------- releasing the cache
InitFree ==
  /\ InitEngineOn({1}, BOOLEAN, Empty)
  /\ HostBuild
  /\ NoLoop
  /\ mode \in Modes
  /\ FreeMemory \in BOOLEAN
  /\ looseTypeAnalysis = FALSE
  /\ budget = MaxFreeOps

NextFree ==
  \/ Construct
  \/ FreeCacheOn(CacheAllocs, {0, 1}, {TRUE})
  \/ TerminateOn
  \/ SplitReverseOn

SpecFree == InitFree /\ [][NextFree]_vars

FreeCacheCall(call) == budget' < budget /\ call.op = "freeCache"

\* C17 (freeCache with freeing disabled): with FreeMemory off a freeCache
\* call returns no deallocation and changes no block, no map and no slot,
\* whatever its arguments and the mode, a forward block without a reverse
\* block included.
FreeDisabledStep ==
  (FreeCacheCall(last') /\ ~FreeMemory) =>
    /\ last'.ok /\ last'.ret = <<0>>
    /\ code' = code
    /\ scopeFrees' = scopeFrees
    /\ reverseBlocks' = reverseBlocks
    /\ reverseBlockToPrimal' = reverseBlockToPrimal
    /\ differentials' = differentials
    /\ invertedPointers' = invertedPointers
    /\ nextId' = nextId

C17_FreeDisabled == [][FreeDisabledStep]_vars

\* In a forward mode, where no block has a reverse block, freeCache returned
\* with nothing emitted.
C17_Witness ==
  /\ ~FreeMemory /\ mode \in ForwardModes
  /\ last.op = "freeCache" /\ last.ok /\ last.ret = <<0>>
  /\ last.B \notin DOMAIN reverseBlocks
  /\ \A R \in DOMAIN code : code[R] = <<>>

\* The deallocations in a block, and the allocation a deallocation is of: the
\* one whose cache the freed pointer was loaded from.
FreesIn(instrs) == {k \in 1..Len(instrs) : instrs[k].op = "free"}
FreedFrom(cd, alloc) ==
  UNION {{cd[R][k].id : k \in {n \in FreesIn(cd[R]) :
                                 \E l \in 1..Len(cd[R]) :
                                   /\ cd[R][l].op = "load_forfree"
                                   /\ cd[R][l].id = cd[R][n].ptr
                                   /\ cd[R][l].addr.alloc = alloc}} : R \in DOMAIN cd}
Recorded(sf, alloc) == IF alloc \in DOMAIN sf THEN sf[alloc] ELSE {}
EndsInTerminator(instrs) == Len(instrs) > 0 /\ isTerminator(instrs[Len(instrs)])

\* C18 (one deallocation per call, recorded): with FreeMemory on, a freeCache
\* call for a forward block that has reverse blocks returns; it adds exactly
\* one deallocation, to the last reverse block listed for the forward block
\* and before that block's terminator if it has one; it adds that
\* deallocation, and nothing else, to the set recorded for its allocation,
\* and leaves every other block and every other allocation's set as they were.
OneFreeStep ==
  (FreeCacheCall(last') /\ FreeMemory /\ last'.B \in DOMAIN reverseBlocks) =>
    LET call == last'
        rb == reverseBlocks[call.B]
        tb == rb[Len(rb)]
        added == {k \in FreesIn(code'[tb]) :
                    \A n \in FreesIn(code[tb]) : code[tb][n].id # code'[tb][k].id}
    IN /\ call.ok
       /\ Cardinality(added) = 1
       /\ Cardinality(FreesIn(code'[tb])) = Cardinality(FreesIn(code[tb])) + 1
       /\ \A R \in DOMAIN code \ {tb} : code'[R] = code[R]
       /\ DOMAIN code' = DOMAIN code
       /\ EndsInTerminator(code[tb]) =>
            /\ code'[tb][Len(code'[tb])] = code[tb][Len(code[tb])]
            /\ SubSeq(code'[tb], 1, Len(code[tb]) - 1)
                 = SubSeq(code[tb], 1, Len(code[tb]) - 1)
       /\ ~EndsInTerminator(code[tb]) =>
            SubSeq(code'[tb], 1, Len(code[tb])) = code[tb]
       /\ \A k \in added :
            /\ call.ret = <<code'[tb][k].id>>
            /\ scopeFrees'[call.val] = Recorded(scopeFrees, call.val) \cup {code'[tb][k].id}
            /\ code'[tb][k].id \notin Recorded(scopeFrees, call.val)
       /\ \A a \in CacheAllocs \ {call.val} :
            Recorded(scopeFrees', a) = Recorded(scopeFrees, a)

C18_OneFreeStep == [][OneFreeStep]_vars

\* C18, the association after any sequence of calls: the set recorded for an
\* allocation is the set of the deallocations emitted for it.
RecordedIsEmitted ==
  \A a \in CacheAllocs : Recorded(scopeFrees, a) = FreedFrom(code, a)

VarsOfScopes(sublimits, from) ==
  UNION {{sublimits[j][k].var : k \in 1..Len(sublimits[j])} :
           j \in (from + 1)..Len(sublimits)} \ {""}
\* What a freeCache call put into the block it built in.
FreeSequence(call) ==
  LET rb == reverseBlocks[call.B]
      tb == rb[Len(rb)]
      t == IF EndsInTerminator(code[tb]) THEN 1 ELSE 0
  IN SubSeq(code'[tb], Len(code[tb]) - t + 1, Len(code'[tb]) - t)
\* The sequence is one load of the shadow counter of each variable of `vs`,
\* then the load of the pointer, from an address that takes the variables of
\* `vs` from those loads and every other variable it uses as the forward pass
\* left it, then the deallocation of what was loaded.
ReloadsThenFrees(new, vs, used) ==
  LET n == Len(new) IN
  /\ n = Cardinality(vs) + 2
  /\ \A k \in 1..(n - 2) :
       /\ new[k].op = "load_antivar"
       /\ \E l \in DOMAIN SubLimits : \E q \in DOMAIN SubLimits[l] :
            /\ SubLimits[l][q].var = new[k].var
            /\ SubLimits[l][q].antivaralloc = new[k].alloc
  /\ {new[k].var : k \in 1..(n - 2)} = vs
  /\ new[n - 1].op = "load_forfree"
  /\ new[n - 1].addr.reloaded = used \cap vs
  /\ new[n - 1].addr.forward = used \ vs
  /\ new[n].op = "free" /\ new[n].ptr = new[n - 1].id

\* C19 (induction variables are reconstructed) as claimed: a freeCache call
\* that returns a deallocation has loaded the shadow counter of the induction
\* variable of every loop of every scope it was passed, before the pointer
\* load and the deallocation, and the address uses no forward-order index.
ReloadOriginalStep ==
  (FreeCacheCall(last') /\ FreeMemory /\ last'.ok) =>
    /\ ReloadsThenFrees(FreeSequence(last'), VarsOfScopes(SubLimits, 0), {"i", "j"})
    /\ FreeSequence(last')[Len(FreeSequence(last')) - 1].addr.forward = {}

ReloadStep ==
  (FreeCacheCall(last') /\ FreeMemory /\ last'.ok) =>
    ReloadsThenFrees(FreeSequence(last'), VarsOfScopes(SubLimits, last'.args[1]),
                     {"i", "j"})

SelValues == {"x", "k"}

InitSel ==
  /\ InitEngineOn({1}, {TRUE}, Empty)
  /\ HostBuild
  /\ NoLoop
  /\ mode \in ReverseModes
  /\ FreeMemory = TRUE
  /\ looseTypeAnalysis = TRUE
  /\ budget = MaxSelOps

NextSel ==
  \/ Construct
  \/ AddToDiffeOn(SelValues, {"inst", "select"}, FALSE, {NoMask})

SpecSel == InitSel /\ [][NextSel]_vars

\* The naive sum: old + increment, in the float type an integer's bits are
\* read in.
NaiveSum(old, inc, ty) ==
  IF ty.k = "int"
  THEN BitCastVal(AddVal(BitCastVal(old, DoubleTy), BitCastVal(inc, DoubleTy)), ty)
  ELSE AddVal(old, inc)
\* The select an increment is, directly or behind a bitcast, when it is a
\* choice between zero and something.
SelectOf(dif) ==
  IF dif.e = "select" THEN dif
  ELSE IF dif.e = "bitcast" /\ dif.x.e = "select" THEN dif.x
  ELSE Const(VoidTy, UndefLeaf)
ZeroChosen(dif) ==
  LET sel == SelectOf(dif) IN
  /\ sel.e = "select"
  /\ isZeroConstant(IF Eval(sel.c, Empty).n = 1 THEN sel.t ELSE sel.f)

\* C20 (select fusion preserves the value): on every run to the end of the
\* block of an addToDiffe call whose increment is a plain value or a choice
\* between zero and x, the slot ends with old + increment: with old when the
\* zero branch is chosen, with old + x otherwise; on the float path and on
\* the path that reads an integer's bits as a float.
SelectFusionStep ==
  (budget' < budget /\ last'.op = "addToDiffe") =>
    LET call == last'
        slot == differentials'[call.val]
        ty == TypeOfValue(call.val)
    IN /\ call.ok
       /\ \A pth \in PathsEndingIn(call.B) :
            LET before == RunPath(code, pth, RunInit)
                after == RunPath(code', pth, RunInit)
                b0 == IF slot \in DOMAIN before.mem THEN before.mem[slot] ELSE ZeroOf(ty)
                inc == Eval(call.dif, Empty)
            IN /\ after.mem[slot] = NaiveSum(b0, inc, ty)
               /\ ZeroChosen(call.dif) => after.mem[slot] = b0
               /\ ~ZeroChosen(call.dif) => after.mem[slot] # b0

C20_SelectFusion == [][SelectFusionStep]_vars

\* On the integer path, an increment select(false, 0, x) behind nothing was
\* fused: the store is of a select whose true branch is the old value (cast
\* to the float type and back), and
\* the slot of k, which held the bits of 2.0, holds the bits of 4.0.
C20_Witness ==
  /\ last.op = "addToDiffe" /\ last.ok /\ last.val = "k"
  /\ last.dif.e = "select" /\ isZeroConstant(last.dif.t)
  /\ Eval(last.dif.c, Empty).n = 0
  /\ LET instrs == code[last.B] IN
     /\ Len(instrs) = 4
     /\ instrs[4].op = "store" /\ instrs[4].val.e = "select"
     /\ instrs[4].val.t.e = "bitcast" /\ instrs[4].val.t.x.e = "bitcast"
     /\ instrs[4].val.t.x.x.e = "ld"
     /\ RunPath(code, <<inversionAllocs, last.B>>, RunInit).mem[differentials["k"]]
          = I(BitsOfFloat(4))

\* ------------------------------------------- integer storage, added as floats
NumValues == {"k", "k32", "k96"}
AddingTypes == {NoType, FloatTy, DoubleTy, VectorTy(2, FloatTy), IntTy(64)}

InitNum ==
  /\ InitEngineOn({1}, {TRUE}, Empty)
  /\ HostBuild
  /\ NoLoop
  /\ mode \in ReverseModes
  /\ FreeMemory = TRUE
  /\ looseTypeAnalysis \in BOOLEAN
  /\ budget = MaxNumOps

NextNum ==
  \/ Construct
  \/ AddToDiffeAsOn(NumValues, {"const", "inst", "lanes"}, AddingTypes)

SpecNum == InitNum /\ [][NextNum]_vars

\* An addToDiffe call into integer storage of `w` bits, with the float type
\* `given` (NoType: none).
IntegerCall(call) ==
  /\ budget' < budget /\ call.op = "addToDiffe"
  /\ TypeOfValue(call.val).k = "int"
StorageBits(call) == TypeOfValue(call.val).bits
\* The float type the fallback guesses.
GuessedType(w) ==
  IF looseTypeAnalysis /\ w = 64 THEN DoubleTy
  ELSE IF looseTypeAnalysis /\ w = 32 THEN FloatTy
  ELSE NoType
\* The store a call that returned ended with, and the type it added in.
FinalStore(call) == code'[call.B][Len(code'[call.B])]
AddedAsFloat(call, T) ==
  LET st == FinalStore(call)
      slot == differentials'[call.val]
      ty == TypeOfValue(call.val)
  IN /\ Len(Emitted(call.B)) = 2
     /\ st.op = "store" /\ st.ptr = Addr(slot, <<>>)
     /\ st.val.e = "bitcast" /\ st.val.ty = ty
     /\ st.val.x.e = "fadd" /\ st.val.x.ty = T
     /\ isFPOrFPVectorTy(T)
     /\ \A pth \in PathsEndingIn(call.B) :
          LET before == RunPath(code, pth, RunInit)
              after == RunPath(code', pth, RunInit)
              b0 == IF slot \in DOMAIN before.mem THEN before.mem[slot] ELSE ZeroOf(ty)
          IN after.mem[slot] =
               BitCastVal(AddVal(BitCastVal(b0, T),
                                 BitCastVal(Eval(call.dif, Empty), T)), ty)
NoStore(call) ==
  \A k \in 1..Len(Emitted(call.B)) : Emitted(call.B)[k].op # "store"

\* C21 (numeric reinterpretation) as claimed: with no addingType the call
\* returns exactly when the fallback is on and the storage is of 64 or 32
\* bits, and adds as double or float; with an addingType narrower than the
\* storage the call adds in a vector of that type as wide as the storage; a
\* call that returns never adds the integers.
ReinterpretOriginalStep ==
  IntegerCall(last') =>
    LET call == last'
        w == StorageBits(call)
        given == call.args[1]
    IN /\ given = NoType =>
            /\ call.ok <=> GuessedType(w) # NoType
            /\ call.ok => AddedAsFloat(call, GuessedType(w))
       /\ (isFPOrFPVectorTy(given) /\ getTypeSizeInBits(given) < w) =>
            /\ call.ok
            /\ FinalStore(call).op = "store"
            /\ FinalStore(call).val.x.ty.k = "vector"
            /\ getTypeSizeInBits(FinalStore(call).val.x.ty) = w
       /\ call.ok => FinalStore(call).val.x.e = "fadd"
       /\ ~call.ok => NoStore(call)

C21_Original == [][ReinterpretOriginalStep]_vars

\* C21 as amended: a float type narrower than the storage is broadened only
\* when it is not a vector and its width divides the storage's; the call
\* returns exactly when the type it ends with is a float type as wide as the
\* storage, and then adds in that type; otherwise it aborts with no store.
ReinterpretStep ==
  IntegerCall(last') =>
    LET call == last'
        w == StorageBits(call)
        given == call.args[1]
        at0 == IF given # NoType THEN given ELSE GuessedType(w)
        b0 == getTypeSizeInBits(at0)
        T == IF at0.k \in {"float", "double"} /\ b0 < w /\ w % b0 = 0
             THEN VectorTy(w \div b0, at0)
             ELSE at0
    IN /\ call.ok <=> (isFPOrFPVectorTy(at0) /\ getTypeSizeInBits(T) = w)
       /\ call.ok => AddedAsFloat(call, T)
       /\ ~call.ok => NoStore(call)

C21_Reinterpretation == [][ReinterpretStep]_vars

\* The 64-bit k was added to twice as a vector of two floats, <1, 2> each
\* time: it holds the bits of <2, 4>, which is not the sum of the integers.
C21_Witness ==
  /\ last.op = "addToDiffe" /\ last.ok /\ last.val = "k"
  /\ last.args = <<FloatTy>>
  /\ code[last.B][Len(code[last.B])].val.x.ty = VectorTy(2, FloatTy)
  /\ LET end == RunPath(code, <<inversionAllocs, last.B>>, RunInit).mem[differentials["k"]]
     IN /\ end = BitsOfLanes(<<F(2), F(4)>>)
        /\ end # I(2 * BitsOfLanes(<<F(1), F(2)>>).n)

\* ------------------------------ parallel accumulation through a shadow pointer
\* Unmasked accumulations: a float, and two floats taken four bytes into a
\* vector of four.
ParCases ==
  {PtrCase(FloatTy, FloatTy, 0, 4, Const(FloatTy, F(1)), 4, NoMask),
   PtrCase(V4, FloatTy, 4, 8, Inst(V4, <<F(1), F(2), F(3), F(4)>>), 8, NoMask)}
ParArchs == {"x86_64", "nvptx64"}
\* What the shadow buffers hold when the threads start.
ParBuffer == <<F(1), F(2), F(3), F(4)>>

InitPar ==
  /\ InitEngineOn({1}, {TRUE}, [v \in PtrValues |-> ShadowOf(v)])
  /\ NoLoop
  /\ mode = "ReverseModeGradient"
  /\ FreeMemory = TRUE
  /\ looseTypeAnalysis = FALSE
  /\ AtomicAdd \in BOOLEAN
  /\ Arch \in ParArchs
  /\ LLVM_VERSION_MAJOR = 13
  /\ backwardsOnlyShadows = {"mb"}
  /\ budget = MaxParOps

NextPar ==
  \/ Construct
  \/ AddToInvertedPtrDiffeOn(PtrValues, ParCases)
  \/ Launch(ShadowMem(ParBuffer))
  \/ ThreadStep

SpecPar == InitPar /\ [][NextPar]_vars

\* Every thread ran to the end of the block.
ThreadsDone ==
  /\ threads.run = "running"
  /\ \A t \in 1..MaxThreads : threads.pc[t] > Len(threads.prog)

\* The memory after n threads ran the block one after the other: the initial
\* contents plus the increments of all of them.
RECURSIVE SerialRun(_, _, _)
SerialRun(prog, mem0, n) ==
  IF n = 0 THEN mem0
  ELSE SerialRun(prog, [b \in DOMAIN mem0 |-> RunBlock(prog, RunFrom(mem0)).mem[b]],
                 n - 1)

\* The shadow buffers more than one logical thread may touch.
SharedBuffers ==
  {ShadowBuf(v) : v \in {w \in PtrValues : ~ExemptTarget(getUnderlyingObject(w))}}

NoLostUpdate ==
  ThreadsDone =>
    \A b \in SharedBuffers :
      threads.mem[b] = SerialRun(threads.prog, ShadowMem(ParBuffer), MaxThreads)[b]

\* C22 (no lost update) as claimed: whatever the interleaving, the threads
\* leave in every shadow buffer that is neither a backwards-only shadow nor
\* GPU-local stack storage its initial contents plus the increments of all of
\* them, and a call emits plain loads and stores of a shadow buffer only for
\* such an exempt target.
PlainOnlyExemptStep ==
  (last'.op = "addToInvertedPtrDiffe" /\ budget' < budget /\ last'.ok) =>
    (AccessesIn(Emitted(last'.B), ShadowBuf(last'.val)) # {} =>
       ExemptTarget(getUnderlyingObject(last'.val)))

C22_Original == []NoLostUpdate /\ [][PlainOnlyExemptStep]_vars

\* C22 as amended: with the AtomicAdd toggle on, whatever the interleaving,
\* the threads leave in every shadow buffer that is neither a backwards-only
\* shadow nor GPU-local stack storage its initial contents plus the
\* increments of all of them, and a call emits plain loads and stores of a
\* shadow buffer only for such an exempt target; with the toggle off every
\* call that returns emits the plain form, whatever the target.
PlainFormStep ==
  (last'.op = "addToInvertedPtrDiffe" /\ budget' < budget /\ last'.ok) =>
    LET plain == AccessesIn(Emitted(last'.B), ShadowBuf(last'.val)) # {} IN
    /\ AtomicAdd => (plain => ExemptTarget(getUnderlyingObject(last'.val)))
    /\ ~AtomicAdd => plain

C22_NoLostUpdate == [](AtomicAdd => NoLostUpdate) /\ [][PlainFormStep]_vars

\* With AtomicAdd on, two or more threads ran the atomic accumulation of 1.0
\* into the shadow of a pointer argument, and the first float went from 1.0
\* to 1.0 plus one per thread.
C22_Witness ==
  /\ AtomicAdd /\ ThreadsDone
  /\ last.op = "addToInvertedPtrDiffe" /\ last.val = "p"
  /\ last.dif = Const(FloatTy, F(1))
  /\ AtomicsIn(threads.prog) # {}
  /\ threads.mem[ShadowBuf("p")][1] = F(1 + MaxThreads)
  /\ threads.mem[ShadowBuf("p")][2] = F(2)

====
